---- MODULE Spec2Model ----
(***************************************************************************)
(* A model of the mgnes 6502 core (src/go/mgnes): the processor            *)
(* (MG6502: Reset, IRQ, NMI, Clock, the addressing modes and operations),  *)
(* the flat PlainBus the terminal front end attaches it to, and the NES    *)
(* Bus (work RAM, cartridge with mapper 000, PPU stub, clock divider).     *)
(*                                                                         *)
(* A machine is a record [cpu |-> ..., bus |-> ...]; every Go method is an *)
(* operator from machine to machine (or to a record holding the machine    *)
(* and the method's return value).                                         *)
(***************************************************************************)
EXTENDS Integers, Sequences, FiniteSets, TLC

VARIABLES
    cpu,        \* the MG6502 fields
    bus,        \* the bus the processor is attached to, and what it owns
    last,       \* history: the most recent call made by the driver
    calls,      \* history: number of Reset/IRQ/NMI (or Bus.Reset) calls made so far
    ticks,      \* history: Bus.Clock() calls since the last Bus.Reset()
    ppuClocks,  \* history: ppu.Clock() calls made by Bus.Clock() since then
    cpuClocks,  \* history: cpu.Clock() calls made by Bus.Clock() since then
    access,     \* history: the most recent access made directly at a port
    rom,        \* the cartridge image at hand and what the loader returned for it
    driver,     \* history: the step the driver is in and how its calls ended
    written,    \* history: the byte last written at each address of the flat bus
    listing     \* the listing the last Disassemble call returned

vars ==
    <<cpu, bus, last, calls, ticks, ppuClocks, cpuClocks, access, rom, driver, written,
      listing>>

----------------------------------------------------------------------------
(* Bounds of the model. *)

\* Clock() calls explored along one run (cpu.clockCount is capped by it).
MaxClocks == 26
\* Reset()/IRQ()/NMI() calls the driver makes along one run.
MaxCalls == 2
\* Bus.Clock() calls explored after a Bus.Reset().
MaxTicks == 36
\* Bus.Reset() calls the driver makes along one run.
MaxBusResets == 1
\* Clock() calls explored along one run of a single-instruction image.
MaxUnitClocks == 16
\* Accesses made directly at the bus and cartridge ports along one run.
MaxPortCalls == 3
\* Accesses made directly at the flat bus along one run.
MaxFlatCalls == 3
\* Clock() calls made before the listing is asked for.
MaxListingClocks == 12
\* Lines one Disassemble call is followed for.
MaxLines == 24
\* Attach() calls the driver makes along one run.
MaxAttaches == 2

----------------------------------------------------------------------------
(* Status flags, src/go/mgnes/mg6502.go. *)

FlagNegative == 128
FlagOverflow == 64
FlagUnused == 32
FlagBreak == 16
FlagDecimal == 8
FlagInterrupt == 4
FlagZero == 2
FlagCarry == 1

\* uint16 and uint8 arithmetic wrap.
U16(x) == x % 65536
U8(x) == x % 256

\* Go's &, | and ^ on unsigned integers.
RECURSIVE BitAnd(_, _)
BitAnd(a, b) ==
    IF a = 0 \/ b = 0 THEN 0
    ELSE (a % 2) * (b % 2) + 2 * BitAnd(a \div 2, b \div 2)

RECURSIVE BitOr(_, _)
BitOr(a, b) ==
    IF a = 0 THEN b
    ELSE IF b = 0 THEN a
    ELSE (IF a % 2 = 1 \/ b % 2 = 1 THEN 1 ELSE 0) + 2 * BitOr(a \div 2, b \div 2)

RECURSIVE BitXor(_, _)
BitXor(a, b) ==
    IF a = 0 THEN b
    ELSE IF b = 0 THEN a
    ELSE ((a + b) % 2) + 2 * BitXor(a \div 2, b \div 2)

----------------------------------------------------------------------------
(* Memories.  An array is kept as a function on the cells that differ from *)
(* the value the array was filled with.                                    *)

\* PlainBus.Reset fills the 64 KiB with 0xFF.
PlainFill == 255
\* CpuMemory.Reset fills the 2 KiB with 0.
RamFill == 0

Peek(f, a, fill) == IF a \in DOMAIN f THEN f[a] ELSE fill

Poke(f, a, v, fill) ==
    IF v = fill
    THEN [x \in DOMAIN f \ {a} |-> f[x]]
    ELSE [x \in DOMAIN f \cup {a} |-> IF x = a THEN v ELSE f[x]]

\* PlainBus.CpuRead / CpuWrite: mem[int(addr) % len(mem)], len(mem) = 65536.
PlainBusCpuRead(b, addr) == Peek(b.mem, addr % 65536, PlainFill)

\* A flat bus whose memory is one byte short of 64 KiB.
PlainBusCpuWriteShort(b, addr, data) ==
    [b EXCEPT !.mem = Poke(b.mem, addr % 65535, data, PlainFill)]

PlainBusCpuWrite(b, addr, data) ==
    [b EXCEPT !.mem = Poke(b.mem, addr % 65536, data, PlainFill)]

\* CpuMemory.Read / Write: m[addr & 0x07FF].
CpuMemoryRead(ram, addr) == Peek(ram, addr % 2048, RamFill)

\* A write that stores at the address as given, without the 0x07FF mask.
CpuMemoryWriteUnmasked(ram, addr, data) == Poke(ram, addr, data, RamFill)

CpuMemoryWrite(ram, addr, data) == Poke(ram, addr % 2048, data, RamFill)

----------------------------------------------------------------------------
(* Mapper 000 and the cartridge. *)

\* A read map that mirrors the 16 KiB window whatever the bank count.
Mapper000CpuMapReadOneBank(cart, addr) ==
    IF addr >= \h8000
    THEN [mappedAddr |-> addr % 16384, flag |-> TRUE]
    ELSE [mappedAddr |-> 0, flag |-> FALSE]

Mapper000CpuMapRead(cart, addr) ==
    IF addr >= \h8000
    THEN [mappedAddr |-> IF cart.numPRGBanks > 1 THEN addr % 32768 ELSE addr % 16384,
          flag |-> TRUE]
    ELSE [mappedAddr |-> 0, flag |-> FALSE]

Mapper000CpuMapWrite(cart, addr) ==
    IF addr >= \h8000
    THEN [mappedAddr |-> IF cart.numPRGBanks > 1 THEN addr % 32768 ELSE addr % 16384,
          flag |-> TRUE]
    ELSE [mappedAddr |-> 0, flag |-> FALSE]

Mapper000PpuMapRead(cart, addr) ==
    IF addr <= \h1FFF
    THEN [mappedAddr |-> addr, flag |-> TRUE]
    ELSE [mappedAddr |-> 0, flag |-> FALSE]

Mapper000PpuMapWrite(cart, addr) ==
    IF addr <= \h1FFF /\ cart.numCHRBanks = 0
    THEN [mappedAddr |-> addr, flag |-> TRUE]
    ELSE [mappedAddr |-> 0, flag |-> FALSE]

\* Header.PRGROMSize and Header.CHRROMSize: Load makes memPRG and memCHR of
\* exactly these lengths.
PRGROMSize(banks) == banks * 16 * 1024

CHRROMSize(banks) == banks * 8 * 1024

\* The image byte the program storage was loaded with where nothing else is set.
PrgFill == 255

\* The image byte of the graphics storage.
ChrFill == 0

\* A nil pointer (header, cartridge, bus).
Nil == [nil |-> TRUE]

\* The cartridge's four accessors.  Each indexes its storage with the mapped
\* address; panic tells that the index is outside the slice, or that the
\* receiver is nil and cart.mapper dereferences it, where Go aborts the
\* program with a run-time panic: no byte is returned and nothing is stored.
CartridgeCpuRead(cart, addr) ==
    LET mapped(r) ==
            IF r.flag /\ r.mappedAddr >= PRGROMSize(cart.numPRGBanks)
            THEN [data |-> 0, flag |-> TRUE, panic |-> TRUE]
            ELSE IF r.flag
            THEN [data |-> Peek(cart.memPRG, r.mappedAddr, PrgFill), flag |-> TRUE,
                  panic |-> FALSE]
            ELSE [data |-> 0, flag |-> FALSE, panic |-> FALSE]
    IN  IF cart = Nil THEN [data |-> 0, flag |-> FALSE, panic |-> TRUE]
        ELSE mapped(Mapper000CpuMapRead(cart, addr))

CartridgeCpuWrite(cart, addr, data) ==
    LET mapped(r) ==
            IF r.flag /\ r.mappedAddr >= PRGROMSize(cart.numPRGBanks)
            THEN [cart |-> cart, flag |-> TRUE, panic |-> TRUE]
            ELSE IF r.flag
            THEN [cart |-> [cart EXCEPT !.memPRG = Poke(cart.memPRG, r.mappedAddr, data, PrgFill)],
                  flag |-> TRUE, panic |-> FALSE]
            ELSE [cart |-> cart, flag |-> FALSE, panic |-> FALSE]
    IN  IF cart = Nil THEN [cart |-> cart, flag |-> FALSE, panic |-> TRUE]
        ELSE mapped(Mapper000CpuMapWrite(cart, addr))

CartridgePpuRead(cart, addr) ==
    LET mapped(r) ==
            IF r.flag /\ r.mappedAddr >= CHRROMSize(cart.numCHRBanks)
            THEN [data |-> 0, flag |-> TRUE, panic |-> TRUE]
            ELSE IF r.flag
            THEN [data |-> Peek(cart.memCHR, r.mappedAddr, ChrFill), flag |-> TRUE,
                  panic |-> FALSE]
            ELSE [data |-> 0, flag |-> FALSE, panic |-> FALSE]
    IN  IF cart = Nil THEN [data |-> 0, flag |-> FALSE, panic |-> TRUE]
        ELSE mapped(Mapper000PpuMapRead(cart, addr))

CartridgePpuWrite(cart, addr, data) ==
    LET mapped(r) ==
            IF r.flag /\ r.mappedAddr >= CHRROMSize(cart.numCHRBanks)
            THEN [cart |-> cart, flag |-> TRUE, panic |-> TRUE]
            ELSE IF r.flag
            THEN [cart |-> [cart EXCEPT !.memCHR = Poke(cart.memCHR, r.mappedAddr, data, ChrFill)],
                  flag |-> TRUE, panic |-> FALSE]
            ELSE [cart |-> cart, flag |-> FALSE, panic |-> FALSE]
    IN  IF cart = Nil THEN [cart |-> cart, flag |-> FALSE, panic |-> TRUE]
        ELSE mapped(Mapper000PpuMapWrite(cart, addr))

----------------------------------------------------------------------------
(* The NES bus. *)

\* MG2C02.CpuRead is a stub that returns the zero value, MG2C02.CpuWrite a
\* stub that stores nothing.
MG2C02CpuRead(addr) == 0

MG2C02CpuWrite(b, addr, data) == b

\* Bus.CpuRead, with the device the if-chain hands the access to (via) next
\* to the byte it returns, and for the peripheral the address its CpuRead is
\* called with (ppuAddr): the bus passes addr on as it received it.
BusCpuReadCall(b, addr) ==
    LET routed(r) ==
            IF r.flag \/ r.panic THEN [data |-> r.data, via |-> "cart", panic |-> r.panic]
            ELSE IF addr <= \h1FFF
            THEN [data |-> CpuMemoryRead(b.ram, addr), via |-> "ram", panic |-> FALSE]
            ELSE IF addr >= \h2000 /\ addr <= \h3FFF
            THEN [data |-> MG2C02CpuRead(addr), via |-> "ppu", panic |-> FALSE,
                  ppuAddr |-> addr]
            ELSE [data |-> 0, via |-> "none", panic |-> FALSE]
    IN  routed(CartridgeCpuRead(b.cart, addr))

\* Bus.CpuWrite that hands work RAM every address below the cartridge window
\* that is not the peripheral's.
BusCpuWriteCallRamBelowWindow(b, addr, data) ==
    LET routed(r) ==
            IF r.flag \/ r.panic
            THEN [b |-> [b EXCEPT !.cart = r.cart], via |-> "cart", panic |-> r.panic]
            ELSE IF addr >= \h2000 /\ addr <= \h3FFF
            THEN [b |-> MG2C02CpuWrite(b, addr, data), via |-> "ppu", panic |-> FALSE,
                  ppuAddr |-> addr]
            ELSE [b |-> [b EXCEPT !.ram = CpuMemoryWrite(b.ram, addr, data)],
                  via |-> "ram", panic |-> FALSE]
    IN  routed(CartridgeCpuWrite(b.cart, addr, data))

\* Bus.CpuWrite, likewise.
BusCpuWriteCall(b, addr, data) ==
    LET routed(r) ==
            IF r.flag \/ r.panic
            THEN [b |-> [b EXCEPT !.cart = r.cart], via |-> "cart", panic |-> r.panic]
            ELSE IF addr <= \h1FFF
            THEN [b |-> [b EXCEPT !.ram = CpuMemoryWrite(b.ram, addr, data)],
                  via |-> "ram", panic |-> FALSE]
            ELSE IF addr >= \h2000 /\ addr <= \h3FFF
            THEN [b |-> MG2C02CpuWrite(b, addr, data), via |-> "ppu", panic |-> FALSE,
                  ppuAddr |-> addr]
            ELSE [b |-> b, via |-> "none", panic |-> FALSE]
    IN  routed(CartridgeCpuWrite(b.cart, addr, data))

\* What a call that ends in a run-time panic hands back: neither a byte nor
\* a bus.
Panic == [panic |-> TRUE]

\* The byte the processor gets and the bus the processor leaves behind, or
\* Panic where the cartridge is nil or its index is outside its storage.
BusCpuRead(b, addr) ==
    LET returned(r) == IF r.panic THEN Panic ELSE r.data
    IN  returned(BusCpuReadCall(b, addr))

BusCpuWrite(b, addr, data) ==
    LET returned(r) == IF r.panic THEN Panic ELSE r.b
    IN  returned(BusCpuWriteCall(b, addr, data))

----------------------------------------------------------------------------
(* The processor's bus access and stack primitives. *)

\* cpu.read: the attached bus answers (the Reader the processor was given).
read(m, addr) ==
    IF m.bus.kind = "plain" THEN PlainBusCpuRead(m.bus, addr)
    ELSE BusCpuRead(m.bus, addr)

read16(m, addr) ==
    LET lo == read(m, addr)
        hi == read(m, U16(addr + 1))
    IN  hi * 256 + lo

write(m, addr, data) ==
    IF m.bus.kind = "plain"
    THEN [m EXCEPT !.bus = PlainBusCpuWrite(m.bus, addr, data)]
    ELSE [m EXCEPT !.bus = BusCpuWrite(m.bus, addr, data)]

GetFlag(m, flag) == IF BitAnd(m.cpu.FLAG, flag) > 0 THEN 1 ELSE 0

SetFlag(m, flag, v) ==
    IF v THEN [m EXCEPT !.cpu.FLAG = BitOr(m.cpu.FLAG, flag)]
    ELSE [m EXCEPT !.cpu.FLAG = BitAnd(m.cpu.FLAG, 255 - flag)]

push(m, data) ==
    LET m1 == write(m, \h0100 + m.cpu.SP, data)
    IN  [m1 EXCEPT !.cpu.SP = U8(m.cpu.SP + 255)]

\* pop returns the byte read; the machine comes back with SP advanced.
pop(m) ==
    LET top(m1) == [m |-> m1, data |-> read(m1, \h0100 + m1.cpu.SP)]
    IN  top([m EXCEPT !.cpu.SP = U8(m.cpu.SP + 1)])

pushPC(m) ==
    LET low(m1) ==
            [write(m1, \h0100 + m1.cpu.SP, m1.cpu.PC % 256)
                EXCEPT !.cpu.SP = U8(m1.cpu.SP + 255)]
    IN  low([write(m, \h0100 + m.cpu.SP, (m.cpu.PC \div 256) % 256)
                EXCEPT !.cpu.SP = U8(m.cpu.SP + 255)])

popPC(m) ==
    LET load(m1) ==
            [m1 EXCEPT !.cpu.PC = read16(m1, \h0100 + m1.cpu.SP),
                       !.cpu.SP = U8(m1.cpu.SP + 1)]
    IN  load([m EXCEPT !.cpu.SP = U8(m.cpu.SP + 1)])

----------------------------------------------------------------------------
(* Addressing modes.  Each returns the machine and its extra-cycle signal. *)

Ret(m, r) == [m |-> m, r |-> r]

amIMP(m) == Ret([m EXCEPT !.cpu.fetched = m.cpu.A], 0)

amIMM(m) ==
    Ret([m EXCEPT !.cpu.addrAbs = m.cpu.PC, !.cpu.PC = U16(m.cpu.PC + 1)], 0)

amZP0(m) ==
    Ret([m EXCEPT !.cpu.addrAbs = read(m, m.cpu.PC) % 256,
                  !.cpu.PC = U16(m.cpu.PC + 1)], 0)

\* uint16(cpu.read(cpu.PC) + cpu.X): the sum is made in uint8.
amZPX(m) ==
    Ret([m EXCEPT !.cpu.addrAbs = U8(read(m, m.cpu.PC) + m.cpu.X) % 256,
                  !.cpu.PC = U16(m.cpu.PC + 1)], 0)

amZPY(m) ==
    Ret([m EXCEPT !.cpu.addrAbs = U8(read(m, m.cpu.PC) + m.cpu.Y) % 256,
                  !.cpu.PC = U16(m.cpu.PC + 1)], 0)

amREL(m) ==
    LET extend(rel) ==
            Ret([m EXCEPT !.cpu.addrRel = IF BitAnd(rel, 128) > 0 THEN BitOr(rel, \hFF00) ELSE rel,
                          !.cpu.PC = U16(m.cpu.PC + 1)], 0)
    IN  extend(read(m, m.cpu.PC))

amABS(m) ==
    Ret([m EXCEPT !.cpu.addrAbs = read16(m, m.cpu.PC), !.cpu.PC = U16(m.cpu.PC + 2)], 0)

amABX(m) ==
    LET crossed(addr, abs) ==
            Ret([m EXCEPT !.cpu.addrAbs = abs, !.cpu.PC = U16(m.cpu.PC + 2)],
                IF abs \div 256 # addr \div 256 THEN 1 ELSE 0)
        indexed(addr) == crossed(addr, U16(addr + m.cpu.X))
    IN  indexed(read16(m, m.cpu.PC))

\* The source adds Y to the address the previous instruction left in addrAbs:
\* it has no "cpu.addrAbs = addr".
amABY(m) ==
    LET crossed(addr, abs) ==
            Ret([m EXCEPT !.cpu.addrAbs = abs, !.cpu.PC = U16(m.cpu.PC + 2)],
                IF abs \div 256 # addr \div 256 THEN 1 ELSE 0)
        indexed(addr) == crossed(addr, U16(m.cpu.addrAbs + m.cpu.Y))
    IN  indexed(read16(m, m.cpu.PC))

\* Indirect addressing that always takes the high byte from ptr + 1.
amINDNextPage(m) ==
    LET deref(ptrLo, ptr) == read(m, U16(ptr + 1)) * 256 + read(m, ptr)
        pointer(ptrLo, ptrHi) == deref(ptrLo, ptrHi * 256 + ptrLo)
    IN  Ret([m EXCEPT !.cpu.addrAbs = pointer(read(m, m.cpu.PC), read(m, U16(m.cpu.PC + 1))),
                      !.cpu.PC = U16(m.cpu.PC + 2)], 0)

amIND(m) ==
    LET deref(ptrLo, ptr) ==
            IF ptrLo = \h00FF
            THEN read(m, (ptr \div 256) * 256) * 256 + read(m, ptr)
            ELSE read(m, U16(ptr + 1)) * 256 + read(m, ptr)
        pointer(ptrLo, ptrHi) == deref(ptrLo, ptrHi * 256 + ptrLo)
    IN  Ret([m EXCEPT !.cpu.addrAbs = pointer(read(m, m.cpu.PC), read(m, U16(m.cpu.PC + 1))),
                      !.cpu.PC = U16(m.cpu.PC + 2)], 0)

\* Indexed-indirect addressing that reads the pointer's high byte from the
\* cell after the low byte, page zero or not.
amIZXNextPage(m) ==
    LET pointer(t) ==
            read(m, ((t + m.cpu.X) % 256) + 1) * 256 + read(m, (t + m.cpu.X) % 256)
    IN  Ret([m EXCEPT !.cpu.addrAbs = pointer(read(m, m.cpu.PC)),
                      !.cpu.PC = U16(m.cpu.PC + 1)], 0)

amIZX(m) ==
    LET pointer(t) ==
            read(m, (t + m.cpu.X + 1) % 256) * 256 + read(m, (t + m.cpu.X) % 256)
    IN  Ret([m EXCEPT !.cpu.addrAbs = pointer(read(m, m.cpu.PC)),
                      !.cpu.PC = U16(m.cpu.PC + 1)], 0)

amIZY(m) ==
    LET crossed(hi, abs) ==
            Ret([m EXCEPT !.cpu.addrAbs = abs, !.cpu.PC = U16(m.cpu.PC + 1)],
                IF (abs \div 256) * 256 # hi * 256 THEN 1 ELSE 0)
        indexed(lo, hi) == crossed(hi, U16(hi * 256 + lo + m.cpu.Y))
        pointer(t) == indexed(read(m, t % 256), read(m, (t + 1) % 256))
    IN  pointer(read(m, m.cpu.PC))

----------------------------------------------------------------------------
(* The instruction table, src/go/mgnes/optable.go. *)

Instr(name, op, am, cycles) == [name |-> name, op |-> op, am |-> am, cycles |-> cycles]

Lookup == <<
    Instr("BRK","BRK","IMM",7), Instr("ORA","ORA","IZX",6), Instr("???","XXX","IMP",2), Instr("???","XXX","IMP",8), Instr("???","NOP","IMP",3), Instr("ORA","ORA","ZP0",3), Instr("ASL","ASL","ZP0",5), Instr("???","XXX","IMP",5), Instr("PHP","PHP","IMP",3), Instr("ORA","ORA","IMM",2), Instr("ASL","ASL","IMP",2), Instr("???","XXX","IMP",2), Instr("???","NOP","IMP",4), Instr("ORA","ORA","ABS",4), Instr("ASL","ASL","ABS",6), Instr("???","XXX","IMP",6),
    Instr("BPL","BPL","REL",2), Instr("ORA","ORA","IZY",5), Instr("???","XXX","IMP",2), Instr("???","XXX","IMP",8), Instr("???","NOP","IMP",4), Instr("ORA","ORA","ZPX",4), Instr("ASL","ASL","ZPX",6), Instr("???","XXX","IMP",6), Instr("CLC","CLC","IMP",2), Instr("ORA","ORA","ABY",4), Instr("???","NOP","IMP",2), Instr("???","XXX","IMP",7), Instr("???","NOP","IMP",4), Instr("ORA","ORA","ABX",4), Instr("ASL","ASL","ABX",7), Instr("???","XXX","IMP",7),
    Instr("JSR","JSR","ABS",6), Instr("AND","AND","IZX",6), Instr("???","XXX","IMP",2), Instr("???","XXX","IMP",8), Instr("BIT","BIT","ZP0",3), Instr("AND","AND","ZP0",3), Instr("ROL","ROL","ZP0",5), Instr("???","XXX","IMP",5), Instr("PLP","PLP","IMP",4), Instr("AND","AND","IMM",2), Instr("ROL","ROL","IMP",2), Instr("???","XXX","IMP",2), Instr("BIT","BIT","ABS",4), Instr("AND","AND","ABS",4), Instr("ROL","ROL","ABS",6), Instr("???","XXX","IMP",6),
    Instr("BMI","BMI","REL",2), Instr("AND","AND","IZY",5), Instr("???","XXX","IMP",2), Instr("???","XXX","IMP",8), Instr("???","NOP","IMP",4), Instr("AND","AND","ZPX",4), Instr("ROL","ROL","ZPX",6), Instr("???","XXX","IMP",6), Instr("SEC","SEC","IMP",2), Instr("AND","AND","ABY",4), Instr("???","NOP","IMP",2), Instr("???","XXX","IMP",7), Instr("???","NOP","IMP",4), Instr("AND","AND","ABX",4), Instr("ROL","ROL","ABX",7), Instr("???","XXX","IMP",7),
    Instr("RTI","RTI","IMP",6), Instr("EOR","EOR","IZX",6), Instr("???","XXX","IMP",2), Instr("???","XXX","IMP",8), Instr("???","NOP","IMP",3), Instr("EOR","EOR","ZP0",3), Instr("LSR","LSR","ZP0",5), Instr("???","XXX","IMP",5), Instr("PHA","PHA","IMP",3), Instr("EOR","EOR","IMM",2), Instr("LSR","LSR","IMP",2), Instr("???","XXX","IMP",2), Instr("JMP","JMP","ABS",3), Instr("EOR","EOR","ABS",4), Instr("LSR","LSR","ABS",6), Instr("???","XXX","IMP",6),
    Instr("BVC","BVC","REL",2), Instr("EOR","EOR","IZY",5), Instr("???","XXX","IMP",2), Instr("???","XXX","IMP",8), Instr("???","NOP","IMP",4), Instr("EOR","EOR","ZPX",4), Instr("LSR","LSR","ZPX",6), Instr("???","XXX","IMP",6), Instr("CLI","CLI","IMP",2), Instr("EOR","EOR","ABY",4), Instr("???","NOP","IMP",2), Instr("???","XXX","IMP",7), Instr("???","NOP","IMP",4), Instr("EOR","EOR","ABX",4), Instr("LSR","LSR","ABX",7), Instr("???","XXX","IMP",7),
    Instr("RTS","RTS","IMP",6), Instr("ADC","ADC","IZX",6), Instr("???","XXX","IMP",2), Instr("???","XXX","IMP",8), Instr("???","NOP","IMP",3), Instr("ADC","ADC","ZP0",3), Instr("ROR","ROR","ZP0",5), Instr("???","XXX","IMP",5), Instr("PLA","PLA","IMP",4), Instr("ADC","ADC","IMM",2), Instr("ROR","ROR","IMP",2), Instr("???","XXX","IMP",2), Instr("JMP","JMP","IND",5), Instr("ADC","ADC","ABS",4), Instr("ROR","ROR","ABS",6), Instr("???","XXX","IMP",6),
    Instr("BVS","BVS","REL",2), Instr("ADC","ADC","IZY",5), Instr("???","XXX","IMP",2), Instr("???","XXX","IMP",8), Instr("???","NOP","IMP",4), Instr("ADC","ADC","ZPX",4), Instr("ROR","ROR","ZPX",6), Instr("???","XXX","IMP",6), Instr("SEI","SEI","IMP",2), Instr("ADC","ADC","ABY",4), Instr("???","NOP","IMP",2), Instr("???","XXX","IMP",7), Instr("???","NOP","IMP",4), Instr("ADC","ADC","ABX",4), Instr("ROR","ROR","ABX",7), Instr("???","XXX","IMP",7),
    Instr("???","NOP","IMP",2), Instr("STA","STA","IZX",6), Instr("???","NOP","IMP",2), Instr("???","XXX","IMP",6), Instr("STY","STY","ZP0",3), Instr("STA","STA","ZP0",3), Instr("STX","STX","ZP0",3), Instr("???","XXX","IMP",3), Instr("DEY","DEY","IMP",2), Instr("???","NOP","IMP",2), Instr("TXA","TXA","IMP",2), Instr("???","XXX","IMP",2), Instr("STY","STY","ABS",4), Instr("STA","STA","ABS",4), Instr("STX","STX","ABS",4), Instr("???","XXX","IMP",4),
    Instr("BCC","BCC","REL",2), Instr("STA","STA","IZY",6), Instr("???","XXX","IMP",2), Instr("???","XXX","IMP",6), Instr("STY","STY","ZPX",4), Instr("STA","STA","ZPX",4), Instr("STX","STX","ZPY",4), Instr("???","XXX","IMP",4), Instr("TYA","TYA","IMP",2), Instr("STA","STA","ABY",5), Instr("TXS","TXS","IMP",2), Instr("???","XXX","IMP",5), Instr("???","NOP","IMP",5), Instr("STA","STA","ABX",5), Instr("???","XXX","IMP",5), Instr("???","XXX","IMP",5),
    Instr("LDY","LDY","IMM",2), Instr("LDA","LDA","IZX",6), Instr("LDX","LDX","IMM",2), Instr("???","XXX","IMP",6), Instr("LDY","LDY","ZP0",3), Instr("LDA","LDA","ZP0",3), Instr("LDX","LDX","ZP0",3), Instr("???","XXX","IMP",3), Instr("TAY","TAY","IMP",2), Instr("LDA","LDA","IMM",2), Instr("TAX","TAX","IMP",2), Instr("???","XXX","IMP",2), Instr("LDY","LDY","ABS",4), Instr("LDA","LDA","ABS",4), Instr("LDX","LDX","ABS",4), Instr("???","XXX","IMP",4),
    Instr("BCS","BCS","REL",2), Instr("LDA","LDA","IZY",5), Instr("???","XXX","IMP",2), Instr("???","XXX","IMP",5), Instr("LDY","LDY","ZPX",4), Instr("LDA","LDA","ZPX",4), Instr("LDX","LDX","ZPY",4), Instr("???","XXX","IMP",4), Instr("CLV","CLV","IMP",2), Instr("LDA","LDA","ABY",4), Instr("TSX","TSX","IMP",2), Instr("???","XXX","IMP",4), Instr("LDY","LDY","ABX",4), Instr("LDA","LDA","ABX",4), Instr("LDX","LDX","ABY",4), Instr("???","XXX","IMP",4),
    Instr("CPY","CPY","IMM",2), Instr("CMP","CMP","IZX",6), Instr("???","NOP","IMP",2), Instr("???","XXX","IMP",8), Instr("CPY","CPY","ZP0",3), Instr("CMP","CMP","ZP0",3), Instr("DEC","DEC","ZP0",5), Instr("???","XXX","IMP",5), Instr("INY","INY","IMP",2), Instr("CMP","CMP","IMM",2), Instr("DEX","DEX","IMP",2), Instr("???","XXX","IMP",2), Instr("CPY","CPY","ABS",4), Instr("CMP","CMP","ABS",4), Instr("DEC","DEC","ABS",6), Instr("???","XXX","IMP",6),
    Instr("BNE","BNE","REL",2), Instr("CMP","CMP","IZY",5), Instr("???","XXX","IMP",2), Instr("???","XXX","IMP",8), Instr("???","NOP","IMP",4), Instr("CMP","CMP","ZPX",4), Instr("DEC","DEC","ZPX",6), Instr("???","XXX","IMP",6), Instr("CLD","CLD","IMP",2), Instr("CMP","CMP","ABY",4), Instr("NOP","NOP","IMP",2), Instr("???","XXX","IMP",7), Instr("???","NOP","IMP",4), Instr("CMP","CMP","ABX",4), Instr("DEC","DEC","ABX",7), Instr("???","XXX","IMP",7),
    Instr("CPX","CPX","IMM",2), Instr("SBC","SBC","IZX",6), Instr("???","NOP","IMP",2), Instr("???","XXX","IMP",8), Instr("CPX","CPX","ZP0",3), Instr("SBC","SBC","ZP0",3), Instr("INC","INC","ZP0",5), Instr("???","XXX","IMP",5), Instr("INX","INX","IMP",2), Instr("SBC","SBC","IMM",2), Instr("NOP","NOP","IMP",2), Instr("???","SBC","IMP",2), Instr("CPX","CPX","ABS",4), Instr("SBC","SBC","ABS",4), Instr("INC","INC","ABS",6), Instr("???","XXX","IMP",6),
    Instr("BEQ","BEQ","REL",2), Instr("SBC","SBC","IZY",5), Instr("???","XXX","IMP",2), Instr("???","XXX","IMP",8), Instr("???","NOP","IMP",4), Instr("SBC","SBC","ZPX",4), Instr("INC","INC","ZPX",6), Instr("???","XXX","IMP",6), Instr("SED","SED","IMP",2), Instr("SBC","SBC","ABY",4), Instr("NOP","NOP","IMP",2), Instr("???","XXX","IMP",7), Instr("???","NOP","IMP",4), Instr("SBC","SBC","ABX",4), Instr("INC","INC","ABX",7), Instr("???","XXX","IMP",7)
>>

\* The addrMode (earlier: imp) field of Instruction says the entry's mode is
\* the implied one. The table that fills that field is not among the
\* sources (newInstructionSet gives name, op, am and cycles only), so the
\* field is taken as the specification describes it: set exactly where the
\* entry's addressing-mode function is the implied one, the comparison the
\* first fetch makes (lookup[opcode].am against amIMP).
IsImplied(opcode) == Lookup[opcode + 1].am = "IMP"

\* fetch: the operand is read from addrAbs unless the mode is implied.
fetch(m) ==
    IF ~IsImplied(m.cpu.opcode)
    THEN [m EXCEPT !.cpu.fetched = read(m, m.cpu.addrAbs)]
    ELSE m

----------------------------------------------------------------------------
(* Operations.  Each returns the machine and its extra-cycle signal. *)

\* The pair of SetFlag calls that ends most operations:
\* Zero from the low byte, Negative from bit 7.
setZN(m, v) ==
    SetFlag(SetFlag(m, FlagZero, v % 256 = 0), FlagNegative, BitAnd(v, 128) # 0)

\* ADC that leaves the carry flag out of the sum.
opADCNoCarryIn(m) ==
    LET overflow(f, temp) ==
            BitAnd(BitAnd(65535 - BitXor(f.cpu.A, f.cpu.fetched),
                          BitXor(f.cpu.A, temp)), 128)
        flags(f, temp) ==
            SetFlag(SetFlag(SetFlag(SetFlag([f EXCEPT !.cpu.temp = temp],
                                            FlagCarry, temp > 255),
                                    FlagZero, temp % 256 = 0),
                            FlagOverflow, overflow(f, temp) # 0),
                    FlagNegative, BitAnd(temp, 128) # 0)
        add(f, temp) == Ret([flags(f, temp) EXCEPT !.cpu.A = temp % 256], 1)
        sum(f) == add(f, f.cpu.A + f.cpu.fetched)
    IN  sum(fetch(m))

opADC(m) ==
    LET overflow(f, temp) ==
            BitAnd(BitAnd(65535 - BitXor(f.cpu.A, f.cpu.fetched),
                          BitXor(f.cpu.A, temp)), 128)
        flags(f, temp) ==
            SetFlag(SetFlag(SetFlag(SetFlag([f EXCEPT !.cpu.temp = temp],
                                            FlagCarry, temp > 255),
                                    FlagZero, temp % 256 = 0),
                            FlagOverflow, overflow(f, temp) # 0),
                    FlagNegative, BitAnd(temp, 128) # 0)
        add(f, temp) == Ret([flags(f, temp) EXCEPT !.cpu.A = temp % 256], 1)
        sum(f) == add(f, f.cpu.A + f.cpu.fetched + GetFlag(f, FlagCarry))
    IN  sum(fetch(m))

opSBC(m) ==
    LET overflow(f, value, temp) ==
            BitAnd(BitXor(temp, f.cpu.A), BitAnd(BitXor(temp, value), 128))
        flags(f, value, temp) ==
            SetFlag(SetFlag(SetFlag(SetFlag([f EXCEPT !.cpu.temp = temp],
                                            FlagCarry, temp \div 256 # 0),
                                    FlagZero, temp % 256 = 0),
                            FlagOverflow, overflow(f, value, temp) # 0),
                    FlagNegative, BitAnd(temp, 128) # 0)
        sub(f, value, temp) == Ret([flags(f, value, temp) EXCEPT !.cpu.A = temp % 256], 1)
        sum(f, value) == sub(f, value, f.cpu.A + value + GetFlag(f, FlagCarry))
        invert(f) == sum(f, BitXor(f.cpu.fetched, 255))
    IN  invert(fetch(m))

opAND(m) ==
    LET store(f, a) == Ret(setZN([f EXCEPT !.cpu.A = a], a), 1)
        combine(f) == store(f, BitAnd(f.cpu.A, f.cpu.fetched))
    IN  combine(fetch(m))

opORA(m) ==
    LET store(f, a) == Ret(setZN([f EXCEPT !.cpu.A = a], a), 1)
        combine(f) == store(f, BitOr(f.cpu.A, f.cpu.fetched))
    IN  combine(fetch(m))

opEOR(m) ==
    LET store(f, a) == Ret(setZN([f EXCEPT !.cpu.A = a], a), 1)
        combine(f) == store(f, BitXor(f.cpu.A, f.cpu.fetched))
    IN  combine(fetch(m))

\* The tail of ASL, LSR, ROL and ROR: the result goes to A in implied mode,
\* to the addressed byte otherwise.
\* A shift that writes its result to the accumulator in every mode.
storeShiftToA(m) == [m EXCEPT !.cpu.A = m.cpu.temp % 256]

storeShift(m) ==
    IF IsImplied(m.cpu.opcode)
    THEN [m EXCEPT !.cpu.A = m.cpu.temp % 256]
    ELSE write(m, m.cpu.addrAbs, m.cpu.temp % 256)

opASL(m) ==
    LET flags(f, temp) ==
            setZN(SetFlag([f EXCEPT !.cpu.temp = temp], FlagCarry, temp \div 256 > 0), temp)
        shift(f) == Ret(storeShift(flags(f, f.cpu.fetched * 2)), 0)
    IN  shift(fetch(m))

opLSR(m) ==
    LET flags(f, temp) ==
            setZN([SetFlag(f, FlagCarry, f.cpu.fetched % 2 # 0) EXCEPT !.cpu.temp = temp], temp)
        shift(f) == Ret(storeShift(flags(f, f.cpu.fetched \div 2)), 0)
    IN  shift(fetch(m))

\* uint16(cpu.fetched<<1): the shift is made in uint8, bit 7 is lost.
opROL(m) ==
    LET flags(f, temp) ==
            setZN(SetFlag([f EXCEPT !.cpu.temp = temp], FlagCarry, temp \div 256 # 0), temp)
        rotate(f) ==
            Ret(storeShift(flags(f, BitOr(U8(f.cpu.fetched * 2), GetFlag(f, FlagCarry)))), 0)
    IN  rotate(fetch(m))

opROR(m) ==
    LET flags(f, temp) ==
            setZN(SetFlag([f EXCEPT !.cpu.temp = temp], FlagCarry, f.cpu.fetched % 2 # 0), temp)
        rotate(f) ==
            Ret(storeShift(flags(f, BitOr(f.cpu.fetched \div 2,
                                          U8(GetFlag(f, FlagCarry) * 128)))), 0)
    IN  rotate(fetch(m))

opBIT(m) ==
    LET flags(f, temp) ==
            SetFlag(SetFlag(SetFlag([f EXCEPT !.cpu.temp = temp], FlagZero, temp % 256 = 0),
                            FlagNegative, BitAnd(f.cpu.fetched, 128) # 0),
                    FlagOverflow, BitAnd(f.cpu.fetched, 64) # 0)
        test(f) == Ret(flags(f, BitAnd(f.cpu.A, f.cpu.fetched)), 0)
    IN  test(fetch(m))

\* The body shared by CMP, CPX and CPY, on register reg.
compare(m, reg, r) ==
    LET flags(f, temp) ==
            setZN(SetFlag([f EXCEPT !.cpu.temp = temp], FlagCarry, reg >= f.cpu.fetched), temp)
        diff(f) == Ret(flags(f, U16(reg + 65536 - f.cpu.fetched)), r)
    IN  diff(fetch(m))

opCMP(m) == compare(m, m.cpu.A, 1)

opCPX(m) == compare(m, m.cpu.X, 0)

opCPY(m) == compare(m, m.cpu.Y, 0)

\* A branch that charges the taken cycle and never the page-crossing one.
branchIgnoresPage(m, taken) ==
    IF taken
    THEN LET jump(abs) ==
                 Ret([m EXCEPT !.cpu.cycles = U8(m.cpu.cycles + 1),
                               !.cpu.addrAbs = abs, !.cpu.PC = abs], 0)
         IN  jump(U16(m.cpu.PC + m.cpu.addrRel))
    ELSE Ret(m, 0)

\* The body shared by the eight conditional branches.
branch(m, taken) ==
    IF taken
    THEN LET jump(abs) ==
                 Ret([m EXCEPT !.cpu.cycles = IF abs \div 256 # m.cpu.PC \div 256
                                              THEN U8(U8(m.cpu.cycles + 1) + 1)
                                              ELSE U8(m.cpu.cycles + 1),
                               !.cpu.addrAbs = abs, !.cpu.PC = abs], 0)
         IN  jump(U16(m.cpu.PC + m.cpu.addrRel))
    ELSE Ret(m, 0)

opBCC(m) == branch(m, GetFlag(m, FlagCarry) = 0)

opBCS(m) == branch(m, GetFlag(m, FlagCarry) = 1)

opBEQ(m) == branch(m, GetFlag(m, FlagZero) = 1)

opBMI(m) == branch(m, GetFlag(m, FlagNegative) = 1)

opBNE(m) == branch(m, GetFlag(m, FlagZero) = 0)

opBPL(m) == branch(m, GetFlag(m, FlagNegative) = 0)

opBVC(m) == branch(m, GetFlag(m, FlagOverflow) = 0)

opBVS(m) == branch(m, GetFlag(m, FlagOverflow) = 1)

\* A BRK that pushes the program counter as the addressing mode left it.
opBRKNoPadding(m) ==
    LET vector(m4) == Ret([m4 EXCEPT !.cpu.PC = read16(m4, \hFFFE)], 0)
        status(m3) == vector(SetFlag(push(m3, m3.cpu.FLAG), FlagBreak, FALSE))
    IN  status(SetFlag(pushPC(SetFlag(m, FlagInterrupt, TRUE)), FlagBreak, TRUE))

opBRK(m) ==
    LET vector(m4) == Ret([m4 EXCEPT !.cpu.PC = read16(m4, \hFFFE)], 0)
        status(m3) == vector(SetFlag(push(m3, m3.cpu.FLAG), FlagBreak, FALSE))
    IN  status(SetFlag(pushPC(SetFlag([m EXCEPT !.cpu.PC = U16(m.cpu.PC + 1)],
                                      FlagInterrupt, TRUE)),
                       FlagBreak, TRUE))

opCLC(m) == Ret(SetFlag(m, FlagCarry, FALSE), 0)

opCLD(m) == Ret(SetFlag(m, FlagDecimal, FALSE), 0)

opCLI(m) == Ret(SetFlag(m, FlagInterrupt, FALSE), 0)

opCLV(m) == Ret(SetFlag(m, FlagOverflow, FALSE), 0)

opSEC(m) == Ret(SetFlag(m, FlagCarry, TRUE), 0)

opSED(m) == Ret(SetFlag(m, FlagDecimal, TRUE), 0)

opSEI(m) == Ret(SetFlag(m, FlagInterrupt, TRUE), 0)

\* uint16(cpu.fetched - 1) and uint16(cpu.fetched + 1): made in uint8.
opDEC(m) ==
    LET store(f, temp) ==
            Ret(setZN(write([f EXCEPT !.cpu.temp = temp], f.cpu.addrAbs, temp % 256), temp), 0)
        step(f) == store(f, U8(f.cpu.fetched + 255))
    IN  step(fetch(m))

opINC(m) ==
    LET store(f, temp) ==
            Ret(setZN(write([f EXCEPT !.cpu.temp = temp], f.cpu.addrAbs, temp % 256), temp), 0)
        step(f) == store(f, U8(f.cpu.fetched + 1))
    IN  step(fetch(m))

opDEX(m) ==
    LET store(x) == Ret(setZN([m EXCEPT !.cpu.X = x], x), 0)
    IN  store(U8(m.cpu.X + 255))

opDEY(m) ==
    LET store(y) == Ret(setZN([m EXCEPT !.cpu.Y = y], y), 0)
    IN  store(U8(m.cpu.Y + 255))

opINX(m) ==
    LET store(x) == Ret(setZN([m EXCEPT !.cpu.X = x], x), 0)
    IN  store(U8(m.cpu.X + 1))

opINY(m) ==
    LET store(y) == Ret(setZN([m EXCEPT !.cpu.Y = y], y), 0)
    IN  store(U8(m.cpu.Y + 1))

opJMP(m) == Ret([m EXCEPT !.cpu.PC = m.cpu.addrAbs], 0)

opJSR(m) ==
    Ret([pushPC([m EXCEPT !.cpu.PC = U16(m.cpu.PC + 65535)]) EXCEPT !.cpu.PC = m.cpu.addrAbs], 0)

opLDA(m) ==
    LET load(f) == Ret(setZN([f EXCEPT !.cpu.A = f.cpu.fetched], f.cpu.fetched), 0)
    IN  load(fetch(m))

opLDX(m) ==
    LET load(f) == Ret(setZN([f EXCEPT !.cpu.X = f.cpu.fetched], f.cpu.fetched), 0)
    IN  load(fetch(m))

opLDY(m) ==
    LET load(f) == Ret(setZN([f EXCEPT !.cpu.Y = f.cpu.fetched], f.cpu.fetched), 0)
    IN  load(fetch(m))

opNOP(m) == Ret(m, IF m.cpu.opcode \in {\h1C, \h3C, \h5C, \h7C, \hDC, \hFC} THEN 1 ELSE 0)

opPHA(m) == Ret(push(m, m.cpu.A), 0)

opPHP(m) ==
    LET status(m1) ==
            Ret(SetFlag(SetFlag(push(m1, m1.cpu.FLAG), FlagBreak, FALSE), FlagUnused, FALSE), 0)
    IN  status(SetFlag(SetFlag(m, FlagBreak, TRUE), FlagUnused, TRUE))

opPLA(m) ==
    LET load(p) == Ret(setZN([p.m EXCEPT !.cpu.A = p.data], p.data), 0)
    IN  load(pop(m))

opPLP(m) ==
    LET load(p) == Ret(SetFlag([p.m EXCEPT !.cpu.FLAG = p.data], FlagUnused, TRUE), 0)
    IN  load(pop(m))

opRTI(m) ==
    LET load(p) ==
            Ret(popPC([p.m EXCEPT !.cpu.FLAG =
                          BitAnd(BitAnd(p.data, 255 - FlagBreak), 255 - FlagUnused)]), 0)
    IN  load(pop(m))

opRTS(m) ==
    LET next(m1) == Ret([m1 EXCEPT !.cpu.PC = U16(m1.cpu.PC + 1)], 0)
    IN  next(popPC(m))

opSTA(m) == Ret(write(m, m.cpu.addrAbs, m.cpu.A), 0)

opSTX(m) == Ret(write(m, m.cpu.addrAbs, m.cpu.X), 0)

opSTY(m) == Ret(write(m, m.cpu.addrAbs, m.cpu.Y), 0)

opTAX(m) == Ret(setZN([m EXCEPT !.cpu.X = m.cpu.A], m.cpu.A), 0)

opTAY(m) == Ret(setZN([m EXCEPT !.cpu.Y = m.cpu.A], m.cpu.A), 0)

opTSX(m) == Ret(setZN([m EXCEPT !.cpu.X = m.cpu.SP], m.cpu.SP), 0)

opTXA(m) == Ret(setZN([m EXCEPT !.cpu.A = m.cpu.X], m.cpu.X), 0)

opTXS(m) == Ret([m EXCEPT !.cpu.SP = m.cpu.X], 0)

opTYA(m) == Ret(setZN([m EXCEPT !.cpu.A = m.cpu.Y], m.cpu.Y), 0)

opXXX(m) == Ret(m, 0)

----------------------------------------------------------------------------
(* The processor core: Reset, IRQ, NMI, Clock, Complete. *)

\* instruction.am(cpu): the table entry's addressing-mode function.
AddrMode(m, am) ==
    CASE am = "IMP" -> amIMP(m) [] am = "IMM" -> amIMM(m) [] am = "ZP0" -> amZP0(m)
      [] am = "ZPX" -> amZPX(m) [] am = "ZPY" -> amZPY(m) [] am = "REL" -> amREL(m)
      [] am = "ABS" -> amABS(m) [] am = "ABX" -> amABX(m) [] am = "ABY" -> amABY(m)
      [] am = "IND" -> amIND(m) [] am = "IZX" -> amIZX(m) [] am = "IZY" -> amIZY(m)

\* instruction.op(cpu): the table entry's operation function.
Operate(m, op) ==
    CASE op = "ADC" -> opADC(m) [] op = "AND" -> opAND(m) [] op = "ASL" -> opASL(m)
      [] op = "BCC" -> opBCC(m) [] op = "BCS" -> opBCS(m) [] op = "BEQ" -> opBEQ(m)
      [] op = "BIT" -> opBIT(m) [] op = "BMI" -> opBMI(m) [] op = "BNE" -> opBNE(m)
      [] op = "BPL" -> opBPL(m) [] op = "BRK" -> opBRK(m) [] op = "BVC" -> opBVC(m)
      [] op = "BVS" -> opBVS(m) [] op = "CLC" -> opCLC(m) [] op = "CLD" -> opCLD(m)
      [] op = "CLI" -> opCLI(m) [] op = "CLV" -> opCLV(m) [] op = "CMP" -> opCMP(m)
      [] op = "CPX" -> opCPX(m) [] op = "CPY" -> opCPY(m) [] op = "DEC" -> opDEC(m)
      [] op = "DEX" -> opDEX(m) [] op = "DEY" -> opDEY(m) [] op = "EOR" -> opEOR(m)
      [] op = "INC" -> opINC(m) [] op = "INX" -> opINX(m) [] op = "INY" -> opINY(m)
      [] op = "JMP" -> opJMP(m) [] op = "JSR" -> opJSR(m) [] op = "LDA" -> opLDA(m)
      [] op = "LDX" -> opLDX(m) [] op = "LDY" -> opLDY(m) [] op = "LSR" -> opLSR(m)
      [] op = "NOP" -> opNOP(m) [] op = "ORA" -> opORA(m) [] op = "PHA" -> opPHA(m)
      [] op = "PHP" -> opPHP(m) [] op = "PLA" -> opPLA(m) [] op = "PLP" -> opPLP(m)
      [] op = "ROL" -> opROL(m) [] op = "ROR" -> opROR(m) [] op = "RTI" -> opRTI(m)
      [] op = "RTS" -> opRTS(m) [] op = "SBC" -> opSBC(m) [] op = "SEC" -> opSEC(m)
      [] op = "SED" -> opSED(m) [] op = "SEI" -> opSEI(m) [] op = "STA" -> opSTA(m)
      [] op = "STX" -> opSTX(m) [] op = "STY" -> opSTY(m) [] op = "TAX" -> opTAX(m)
      [] op = "TAY" -> opTAY(m) [] op = "TSX" -> opTSX(m) [] op = "TXA" -> opTXA(m)
      [] op = "TXS" -> opTXS(m) [] op = "TYA" -> opTYA(m) [] op = "XXX" -> opXXX(m)

\* NewMG6502: every field zero.
NewMG6502 ==
    [A |-> 0, X |-> 0, Y |-> 0, SP |-> 0, PC |-> 0, FLAG |-> 0,
     fetched |-> 0, temp |-> 0, addrAbs |-> 0, addrRel |-> 0,
     opcode |-> 0, cycles |-> 0, clockCount |-> 0]

\* Reset reading the IRQ/BRK vector instead of the reset vector.
ResetFromIrqVector(m) ==
    [m EXCEPT !.cpu.PC = read16(m, \hFFFE),
              !.cpu.A = 0, !.cpu.X = 0, !.cpu.Y = 0,
              !.cpu.SP = \hFD,
              !.cpu.FLAG = BitOr(0, FlagUnused),
              !.cpu.addrRel = 0, !.cpu.addrAbs = 0, !.cpu.fetched = 0,
              !.cpu.cycles = 8]

Reset(m) ==
    [m EXCEPT !.cpu.PC = read16(m, \hFFFC),
              !.cpu.A = 0, !.cpu.X = 0, !.cpu.Y = 0,
              !.cpu.SP = \hFD,
              !.cpu.FLAG = BitOr(0, FlagUnused),
              !.cpu.addrRel = 0, !.cpu.addrAbs = 0, !.cpu.fetched = 0,
              !.cpu.cycles = 8]

\* IRQ without the test of the interrupt-disable flag.
IRQIgnoresMask(m) ==
    LET vector(m3) == [m3 EXCEPT !.cpu.PC = read16(m3, \hFFFE), !.cpu.cycles = 7]
        status(m2) == vector(push(m2, m2.cpu.FLAG))
    IN  status(SetFlag(SetFlag(SetFlag(pushPC(m), FlagBreak, FALSE), FlagUnused, TRUE),
                       FlagInterrupt, TRUE))

IRQ(m) ==
    LET vector(m3) == [m3 EXCEPT !.cpu.PC = read16(m3, \hFFFE), !.cpu.cycles = 7]
        status(m2) == vector(push(m2, m2.cpu.FLAG))
    IN  IF GetFlag(m, FlagInterrupt) # 0 THEN m
        ELSE status(SetFlag(SetFlag(SetFlag(pushPC(m), FlagBreak, FALSE), FlagUnused, TRUE),
                            FlagInterrupt, TRUE))

\* NMI returning early when the interrupt-disable flag is set, as IRQ does.
NMIHonoursMask(m) ==
    LET vector(m3) == [m3 EXCEPT !.cpu.PC = read16(m3, \hFFFA), !.cpu.cycles = 8]
        status(m2) == vector(push(m2, m2.cpu.FLAG))
    IN  IF GetFlag(m, FlagInterrupt) # 0 THEN m
        ELSE status(SetFlag(SetFlag(SetFlag(pushPC(m), FlagBreak, FALSE), FlagUnused, TRUE),
                            FlagInterrupt, TRUE))

\* NMI adding its eight cycles to the cycles still on the counter.
NMIAddsCycles(m) ==
    LET vector(m3) == [m3 EXCEPT !.cpu.PC = read16(m3, \hFFFA),
                                 !.cpu.cycles = U8(m3.cpu.cycles + 8)]
        status(m2) == vector(push(m2, m2.cpu.FLAG))
    IN  status(SetFlag(SetFlag(SetFlag(pushPC(m), FlagBreak, FALSE), FlagUnused, TRUE),
                       FlagInterrupt, TRUE))

NMI(m) ==
    LET vector(m3) == [m3 EXCEPT !.cpu.PC = read16(m3, \hFFFA), !.cpu.cycles = 8]
        status(m2) == vector(push(m2, m2.cpu.FLAG))
    IN  status(SetFlag(SetFlag(SetFlag(pushPC(m), FlagBreak, FALSE), FlagUnused, TRUE),
                       FlagInterrupt, TRUE))

\* Execute charging the extra cycle when either signal asks for it (| for &).
ExecuteChargesEither(m) ==
    LET charge(addressingCycles, e) ==
            SetFlag([e.m EXCEPT !.cpu.cycles =
                        U8(e.m.cpu.cycles + BitOr(addressingCycles, e.r))],
                    FlagUnused, TRUE)
        operate(instruction, a) == charge(a.r, Operate(a.m, instruction.op))
        address(instruction, m1) ==
            operate(instruction,
                    AddrMode([m1 EXCEPT !.cpu.PC = U16(m1.cpu.PC + 1),
                                        !.cpu.cycles = instruction.cycles],
                             instruction.am))
        decode(opcode) ==
            address(Lookup[opcode + 1],
                    SetFlag([m EXCEPT !.cpu.opcode = opcode], FlagUnused, TRUE))
    IN  decode(read(m, m.cpu.PC))

\* Execute without the SetFlag(FlagUnused, true) that follows the operation.
ExecuteLeavesUnused(m) ==
    LET charge(addressingCycles, e) ==
            [e.m EXCEPT !.cpu.cycles = U8(e.m.cpu.cycles + BitAnd(addressingCycles, e.r))]
        operate(instruction, a) == charge(a.r, Operate(a.m, instruction.op))
        address(instruction, m1) ==
            operate(instruction,
                    AddrMode([m1 EXCEPT !.cpu.PC = U16(m1.cpu.PC + 1),
                                        !.cpu.cycles = instruction.cycles],
                             instruction.am))
        decode(opcode) ==
            address(Lookup[opcode + 1],
                    SetFlag([m EXCEPT !.cpu.opcode = opcode], FlagUnused, TRUE))
    IN  decode(read(m, m.cpu.PC))

\* The body of Clock's "if cpu.cycles == 0": fetch, decode, execute, charge.
Execute(m) ==
    LET charge(addressingCycles, e) ==
            SetFlag([e.m EXCEPT !.cpu.cycles =
                        U8(e.m.cpu.cycles + BitAnd(addressingCycles, e.r))],
                    FlagUnused, TRUE)
        operate(instruction, a) == charge(a.r, Operate(a.m, instruction.op))
        address(instruction, m1) ==
            operate(instruction,
                    AddrMode([m1 EXCEPT !.cpu.PC = U16(m1.cpu.PC + 1),
                                        !.cpu.cycles = instruction.cycles],
                             instruction.am))
        decode(opcode) ==
            address(Lookup[opcode + 1],
                    SetFlag([m EXCEPT !.cpu.opcode = opcode], FlagUnused, TRUE))
    IN  decode(read(m, m.cpu.PC))

\* clockCount is a uint32; the runs explored stay far below its wrap.
Clock(m) ==
    LET count(m1) ==
            [m1 EXCEPT !.cpu.clockCount = m1.cpu.clockCount + 1,
                       !.cpu.cycles = U8(m1.cpu.cycles + 255)]
    IN  count(IF m.cpu.cycles = 0 THEN Execute(m) ELSE m)

\* A Complete() that never reports an instruction as finished.
CompleteNever(m) == FALSE

Complete(m) == m.cpu.cycles = 0

\* Attach(b) hands the processor the bus b, which may be nil.
Attach(m, b) == [m EXCEPT !.bus = b]

----------------------------------------------------------------------------
(* Disassemble. *)

\* The address counter of Disassemble kept in a uint16.
U32As16(x) == x % 65536

\* uint32 arithmetic (addr): the sums made here stay below 0x10200, far from
\* the wrap at 2^32.
U32(x) == x

HexDigits ==
    << "0", "1", "2", "3", "4", "5", "6", "7", "8", "9", "A", "B", "C", "D", "E", "F" >>

\* The closure hex: s starts as "0000"; for i := d - 1; i != 0; i-- stores
\* the digit of the low nibble at s[i] and shifts n; all of s is returned.
RECURSIVE hexLoop(_, _, _)
hexLoop(s, n, i) ==
    IF i = 0 THEN s
    ELSE hexLoop([s EXCEPT ![i + 1] = HexDigits[(n % 16) + 1]], n \div 16, i - 1)

hexJoin(s) == s[1] \o s[2] \o s[3] \o s[4]

hex(n, d) == hexJoin(hexLoop(<< "0", "0", "0", "0" >>, n, d - 1))

\* The operand bytes an addressing mode reads behind the opcode.
OperandLen(am) ==
    IF am = "IMP" THEN 0
    ELSE IF am \in {"ABS", "ABX", "ABY", "IND"} THEN 2
    ELSE 1

\* The switch on the addressing mode: what is written behind the mnemonic,
\* given the rendered operand byte, operand word and branch target.
OperandText(am, byte, word, target) ==
    CASE am = "IMP" -> " {IMP}"
      [] am = "IMM" -> "#$" \o byte \o " {IMM}"
      [] am = "ZP0" -> "$" \o byte \o " {ZP0}"
      [] am = "ZPX" -> "$" \o byte \o ", X {ZPX}"
      [] am = "ZPY" -> "$" \o byte \o ", Y {ZPY}"
      [] am = "IZX" -> "($" \o byte \o ", X) {IZX}"
      [] am = "IZY" -> "($" \o byte \o ", Y) {IZY}"
      [] am = "ABS" -> "$" \o word \o " {ABS}"
      [] am = "ABX" -> "$" \o word \o ", X {ABX}"
      [] am = "ABY" -> "$" \o word \o ", Y {ABY}"
      [] am = "IND" -> "($" \o word \o ") {IND}"
      [] am = "REL" -> "$" \o byte \o " [$" \o target \o "] {REL}"

\* The line: '$', the rendered address, ": ", the mnemonic, a blank and the
\* operand.
LineText(at, name, operand) == "$" \o at \o ": " \o name \o " " \o operand

\* One turn of the loop at addr: the line's address, its text and the
\* address the next turn starts at.
Decode(m, addr) ==
    LET line(entry, lo, hi, after) ==
            [lineAddr |-> U16(addr),
             next |-> after,
             text |-> LineText(hex(addr, 4), entry.name,
                               OperandText(entry.am, hex(lo, 2),
                                           hex(hi * 256 + lo, 4),
                                           hex(U32(after + lo), 4)))]
        at(entry) ==
            line(entry, read(m, U16(addr + 1)), read(m, U16(addr + 2)),
                 U32(addr + 1 + OperandLen(entry.am)))
    IN  at(Lookup[read(m, U16(addr)) + 1])

\* for addr <= uint32(end): the listing d with the lines from addr on.  The
\* loop is followed for at most left turns; ended tells that it was left.
RECURSIVE DisassembleFrom(_, _, _, _, _)
DisassembleFrom(m, addr, end, d, left) ==
    LET add(it) ==
            DisassembleFrom(m, it.next, end,
                [d EXCEPT !.Index = Append(d.Index, it.lineAddr),
                          !.Lines = [a \in DOMAIN d.Lines \cup {it.lineAddr} |->
                                        IF a = it.lineAddr THEN it.text ELSE d.Lines[a]]],
                left - 1)
    IN  IF ~(addr <= end) THEN [d EXCEPT !.ended = TRUE]
        ELSE IF left = 0 THEN [d EXCEPT !.ended = FALSE]
        ELSE add(Decode(m, addr))

Disassemble(m, start, end) ==
    DisassembleFrom(m, U32(start), end,
                    [called |-> TRUE, start |-> start, end |-> end,
                     Index |-> << >>, Lines |-> << >>, ended |-> FALSE],
                    MaxLines)

----------------------------------------------------------------------------
(* Bus.Reset and Bus.Clock. *)

\* Bus.Reset that resets the processor and leaves the divider's counter alone.
BusResetKeepsCounter(m) == Reset(m)

BusReset(m) == [Reset(m) EXCEPT !.bus.systemClockCounter = 0]

\* ppu.Clock() is an empty stub; cpuClocked tells whether cpu.Clock() was called.
BusClock(m) ==
    LET count(m1) ==
            [m |-> [m1 EXCEPT !.bus.systemClockCounter = m1.bus.systemClockCounter + 1],
             cpuClocked |-> m.bus.systemClockCounter % 3 = 0]
    IN  count(IF m.bus.systemClockCounter % 3 = 0 THEN Clock(m) ELSE m)

----------------------------------------------------------------------------
(* Memory images.  The front end (loadCPU) fills the flat bus with 0xFF,   *)
(* writes a byte string at 0x8000 and the reset vector, and resets the     *)
(* processor.  An image here is a sequence of such byte strings.           *)

\* loadCPU's loop: bus.CpuWrite(offset+i, b) for every byte of codes.
RECURSIVE LoadCodes(_, _, _)
LoadCodes(m, offset, codes) ==
    IF codes = <<>> THEN m
    ELSE LoadCodes(write(m, offset, Head(codes)), offset + 1, Tail(codes))

RECURSIVE LoadSegments(_, _)
LoadSegments(m, segs) ==
    IF segs = <<>> THEN m
    ELSE LoadSegments(LoadCodes(m, Head(segs)[1], Head(segs)[2]), Tail(segs))

\* NMI vector 0x8030, reset vector 0x8000, IRQ/BRK vector 0x8020.
Vectors == << \hFFFA, << \h30, \h80, \h00, \h80, \h20, \h80 >> >>

\* Both interrupt handlers are a lone RTI.
HandlerIRQ == << \h8020, << \h40 >> >>

HandlerNMI == << \h8030, << \h40 >> >>

\* The byte string loadCPU loads (a multiply-by-addition loop).
ProgDemo ==
    << << \h8000, << \hA2, \h0A, \h8E, \h00, \h00, \hA2, \h03, \h8E, \h01, \h00,
                     \hAC, \h00, \h00, \hA9, \h00, \h18, \h6D, \h01, \h00, \h88,
                     \hD0, \hFA, \h8D, \h02, \h00, \hEA, \hEA, \hEA >> >>,
       << \hFFFC, << \h00, \h80 >> >> >>

\* LDX #ss; TXS; JSR $8010; NOP; JMP $8006   $8010: RTS
ProgStack(ss) ==
    << << \h8000, << \hA2, ss, \h9A, \h20, \h10, \h80, \hEA, \h4C, \h06, \h80 >> >>,
       << \h8010, << \h60 >> >>, HandlerIRQ, HandlerNMI, Vectors >>

\* SED; PHP; PLP; PHA; BRK
ProgFlags ==
    << << \h8000, << \hF8, \h08, \h28, \h48, \h00 >> >>, HandlerIRQ, HandlerNMI, Vectors >>

\* $80F7: LDX #1; ORA $80FF,X; BNE +3 (to $8101, next page); $8101: LDA $80FF,X; BEQ +0; SEI
ProgTiming ==
    << << \h80F7, << \hA2, \h01, \h1D, \hFF, \h80, \hD0, \h03 >> >>,
       << \h8101, << \hBD, \hFF, \h80, \hF0, \h00, \h78 >> >>,
       HandlerIRQ, HandlerNMI,
       << \hFFFA, << \h30, \h80, \hF7, \h80, \h20, \h80 >> >> >>

\* One instruction of each addressing mode at 0x8000, the last of them a
\* branch; a three-byte instruction in the last cell of memory and its
\* operand in cells 0 and 1.
ProgListing ==
    << << \h0000, << \h34, \h12 >> >>,
       << \h8000, << \hA9, \h0A, \hA5, \h1B, \hB5, \h2C, \hB6, \h3D, \hA1, \h4E,
                     \hB1, \hF0, \hAD, \h34, \h12, \hBD, \hFF, \h80, \hB9, \h00,
                     \hC0, \h6C, \hCD, \hAB, \hEA, \hD0, \hFA >> >>,
       << \hFFFC, << \h00, \h80, \hEA, \hAD >> >> >>

\* Images a listing is made of, and the ranges asked for: one address, a few
\* instructions, all of ProgListing's, and the end of memory.
ListingPrograms == {ProgDemo, ProgListing}

\* Flags the driver sets and clears with SetFlag.
SetFlagInputs == {FlagCarry, FlagInterrupt, FlagUnused}

ListingRanges ==
    { << \h8000, \h8000 >>, << \h8000, \h8001 >>, << \h8000, \h8004 >>,
      << \h8000, \h801A >>, << \h8001, \h8010 >>, << \h0000, \h0003 >>,
      << \hFFF0, \hFFFF >>, << \hFFFE, \hFFFF >>, << \hFFFF, \hFFFF >> }

\* Stack pointers the stack program starts from: both ends of page one.
StackSeeds == {0, 1, 255}

Programs == {ProgDemo, ProgFlags, ProgTiming} \cup {ProgStack(ss) : ss \in StackSeeds}

\* The reset vector pointing at origin.
ResetVector(origin) == << \hFFFC, << origin % 256, origin \div 256 >> >>

\* Instructions that leave the flags a branch tests both ways:
\* CLC / SEC / LDA #$00 / LDA #$80 / LDA #$50; ADC #$50 (Overflow set).
BranchSetups ==
    { << \h18 >>, << \h38 >>, << \hA9, \h00 >>, << \hA9, \h80 >>,
      << \hA9, \h50, \h69, \h50 >> }

\* BPL, BMI, BVC, BVS, BCC, BCS, BNE, BEQ.
BranchOpcodes == { \h10, \h30, \h50, \h70, \h90, \hB0, \hD0, \hF0 }

\* Offsets of both signs, and origins that put the branch next to a page
\* boundary and next to either end of the address space.
BranchOffsets == { \h00, \h03, \h7F, \h80, \hFA }

BranchOrigins == { \h0000, \h8000, \h80F8, \hFFF0 }

\* origin: setup; Bxx offset
ProgBranch(origin, setup, opcode, offset) ==
    << << origin, setup \o << opcode, offset >> >>, ResetVector(origin) >>

\* Second operands of the addition: both ends of the range and the values
\* around the sign bit and the nibble boundary.
AdcOperands ==
    { \h00, \h01, \h0F, \h10, \h3F, \h40, \h50, \h7F,
      \h80, \h81, \h90, \hB0, \hC0, \hD0, \hFE, \hFF }

\* LDA #a; CLC or SEC; ADC #operand
ProgAdc(a, operand, carry) ==
    << << \h8000, << \hA9, a, IF carry = 1 THEN \h38 ELSE \h18, \h69, operand >> >>,
       ResetVector(\h8000) >>

\* Pointers of the indirect jump: at the end, inside and at the start of a
\* page, in page zero and at the top of memory.
IndPointers == { \h30FF, \h3080, \h3000, \h30FE, \h00FF, \hFFFF }

\* JMP (ptr), with 0x12 at the start of the pointer's page, 0x56 in the cell
\* after the pointer and 0x34 in the pointer's cell.
ProgInd(ptr) ==
    << << (ptr \div 256) * 256, << \h12 >> >>,
       << U16(ptr + 1), << \h56 >> >>,
       << ptr, << \h34 >> >>,
       << \h8000, << \h6C, ptr % 256, ptr \div 256 >> >>,
       ResetVector(\h8000) >>

\* Opcodes the table names "???".
UndocOpcodes == {op \in 0..255 : Lookup[op + 1].name = "???"}

\* LDA #a; the opcode
ProgUndoc(a, opcode) ==
    << << \h8000, << \hA9, a, opcode >> >>, ResetVector(\h8000) >>

\* Instructions of the four page-zero addressing modes: LDA zp,X; STA zp,X;
\* LDX zp,Y; STX zp,Y; LDA (zp,X); LDA (zp),Y.
ZeroPageOpcodes == { \hB5, \h95, \hB6, \h96, \hA1, \hB1 }

\* Operand bytes and index values whose sums stay below, reach and pass the
\* end of page zero.
ZeroPageOperands == { \h00, \h10, \h80, \hFE, \hFF }

ZeroPageIndexes == { \h00, \h01, \h02, \h7F, \h90, \hFF }

\* LDX #index; LDY #index; the instruction with its operand.  The cells at
\* both ends of page zero and the cells behind its end hold different bytes.
ProgZeroPage(opcode, operand, index) ==
    << << \h0000, << \h12, \h21 >> >>,
       << \h000F, << \h31, \h40, \h20 >> >>,
       << \h007F, << \h3F >> >>,
       << \h00FE, << \h4E, \h34 >> >>,
       << \h0100, << \h56, \h65 >> >>,
       << \h010F, << \h71, \h60, \h30 >> >>,
       << \h017F, << \h7F >> >>,
       << \h01FE, << \h7E, \h74 >> >>,
       << \h8000, << \hA2, index, \hA0, index, opcode, operand >> >>,
       ResetVector(\h8000) >>

\* ASL, LSR, ROL, ROR on the accumulator, and on memory in zero-page,
\* absolute, zero-page,X and absolute,X mode.
ShiftOpcodes ==
    { \h0A, \h4A, \h2A, \h6A,  \h06, \h46, \h26, \h66,  \h0E, \h4E, \h2E, \h6E,
      \h16, \h56, \h36, \h76,  \h1E, \h5E, \h3E, \h7E }

ShiftOperands == { \h00, \h01, \h55, \h80, \hFF }

\* LDA #a; CLC or SEC; the instruction with operand address 0x0040, where
\* the byte 0x01 is and 0xC3 in the cell after it (X is 0).
ProgShift(opcode, a, carry) ==
    << << \h0040, << \h01, \hC3 >> >>,
       << \h8000, << \hA9, a, IF carry = 1 THEN \h38 ELSE \h18, opcode, \h40, \h00 >> >>,
       ResetVector(\h8000) >>

\* Absolute,Y: the address an earlier instruction leaves behind, the operand
\* of the indexed instruction and the index.
AbsYEarlier == { \h0040, \h2000 }

AbsYOperands == { \h3000, \h30FF, \hFFFF }

AbsYIndexes == { \h00, \h01, \hFF }

\* LDY #y; LDA earlier; LDA operand,Y
ProgAbsY(earlier, operand, y) ==
    << << \h8000, << \hA0, y, \hAD, earlier % 256, earlier \div 256,
                     \hB9, operand % 256, operand \div 256 >> >>,
       ResetVector(\h8000) >>

\* BRK next to a page boundary and away from one, after an instruction that
\* leaves Carry, Decimal, InterruptDisable or Negative set, or after none.
BrkOrigins == { \h8000, \h80FE }

BrkSetups == { << >>, << \h38 >>, << \hF8 >>, << \h78 >>, << \hA9, \h80 >> }

\* origin: setup; BRK.  The reset vector is origin, the IRQ/BRK vector 0x9020.
ProgBrk(origin, setup) ==
    << << origin, setup \o << \h00 >> >>,
       << \hFFFC, << origin % 256, origin \div 256, \h20, \h90 >> >> >>

\* LDA #a; ASL A; ASL $40: the accumulator and a memory cell shifted in turn.
ProgShiftBoth(a) ==
    << << \h0040, << \h01, \hC3 >> >>,
       << \h8000, << \hA9, a, \h0A, \h06, \h40, \h00 >> >>,
       ResetVector(\h8000) >>

UnitPrograms ==
    {ProgBranch(origin, setup, opcode, offset) :
        origin \in BranchOrigins, setup \in BranchSetups,
        opcode \in BranchOpcodes, offset \in BranchOffsets}
    \cup {ProgAdc(a, operand, carry) :
             a \in 0..255, operand \in AdcOperands, carry \in {0, 1}}
    \cup {ProgInd(ptr) : ptr \in IndPointers}
    \cup {ProgUndoc(a, opcode) : a \in {\h00, \h50}, opcode \in UndocOpcodes}
    \cup {ProgZeroPage(opcode, operand, index) :
             opcode \in ZeroPageOpcodes, operand \in ZeroPageOperands,
             index \in ZeroPageIndexes}
    \cup {ProgShift(opcode, a, carry) :
             opcode \in ShiftOpcodes, a \in ShiftOperands, carry \in {0, 1}}
    \cup {ProgShiftBoth(a) : a \in {\h41, \hC1}}
    \cup {ProgAbsY(earlier, operand, y) :
             earlier \in AbsYEarlier, operand \in AbsYOperands, y \in AbsYIndexes}
    \cup {ProgBrk(origin, setup) : origin \in BrkOrigins, setup \in BrkSetups}

\* PlainBus after Reset(): 64 KiB of 0xFF.
NewPlainBus == [kind |-> "plain", mem |-> << >>]

\* Cartridge.Load: the header's bank counts and the program storage read from
\* the image (every byte not loaded below is the image's fill byte).
NewCartridge(banks) ==
    [numPRGBanks |-> banks, numCHRBanks |-> 1, memPRG |-> << >>, memCHR |-> << >>]

\* NewBus(cpu): no bus for a nil processor; otherwise work RAM zeroed, the
\* slot empty, counter zero.  SetReader and SetWriter hand the processor the
\* bus: the machine record pairs the two.
NewBus(c) ==
    IF c = Nil THEN Nil
    ELSE [kind |-> "nes", ram |-> << >>, cart |-> Nil, systemClockCounter |-> 0]

\* Bus.InsertCartridge: the slot takes the cartridge (the PPU's
\* AttachCartridge has an empty body).
InsertCartridge(b, cart) == [b EXCEPT !.cart = cart]

----------------------------------------------------------------------------
(* The iNES header and the cartridge loader. *)

Min(a, b) == IF a < b THEN a ELSE b

HeaderSize == 16

TrainerSize == 512

standardIdentifier == <<\h4E, \h45, \h53, \h1A>>

standardPadding == <<0, 0, 0, 0, 0>>

\* An image is what the io.Reader given to the loader delivers: head, its
\* first bytes (all 16 of the header when there are that many), size, its
\* length in bytes, bytes, the bytes beyond the header by offset (a byte not
\* listed is the fill byte of the storage it is loaded into), and reader, the
\* kind of io.Reader it is behind.
\*
\* Reader.Read(buf) at offset pos with len(buf) = len: the bytes left, at
\* most len of them.  At the end of the data a bytes.Reader returns io.EOF
\* whatever len is, an os.File returns 0, nil for an empty buf.
ReaderRead(img, pos, len) ==
    [n |-> Min(len, img.size - pos),
     err |-> IF pos >= img.size /\ (len > 0 \/ img.reader = "bytes.Reader")
             THEN "EOF" ELSE "nil"]

\* The bytes of img from offset start on that a Read of len bytes stores.
Block(img, start, len) ==
    [o \in {x - start : x \in {y \in DOMAIN img.bytes : y >= start /\ y < start + len}}
        |-> img.bytes[o + start]]

\* ines.NewHeader: io.ReadAtLeast of HeaderSize bytes, the identifier, the
\* fields, and the padding copied from buf[10:].  io.ReadAtLeast calls
\* r.Read, which on a nil reader is a run-time panic.
NewHeader(img) ==
    LET buf == img.head
    IN  IF img.reader = "nil" THEN Panic
        ELSE IF Min(HeaderSize, img.size) # HeaderSize
        THEN [header |-> Nil, err |-> "invalid header size"]
        ELSE IF SubSeq(buf, 1, 4) # standardIdentifier
        THEN [header |-> Nil, err |-> "invalid identifier"]
        ELSE IF SubSeq(buf, 11, 15) # standardPadding
        THEN [header |-> Nil, err |-> "invalid padding"]
        ELSE [header |-> [Identifier |-> SubSeq(buf, 1, 4),
                          PRG |-> buf[5], CHR |-> buf[6],
                          Flag6 |-> buf[7], Flag7 |-> buf[8],
                          PRGRAM |-> buf[9], Flag9 |-> buf[10], Flag10 |-> buf[11],
                          padding |-> SubSeq(buf, 11, 15)],
              err |-> "nil"]

\* A mapper number with the nibbles of flag byte 6 taken from the wrong end.
MapperLowNibbles(h) == BitOr(BitAnd(h.Flag6, \h0F), BitAnd(h.Flag7, \hF0))

\* Header.Mapper.
Mapper(h) == BitOr(BitAnd(h.Flag6, \hF0) \div 16, BitAnd(h.Flag7, \hF0))

\* Header.Trainer.
Trainer(h) == BitAnd(h.Flag6, \h04) # 0

\* Header.Mirroring.
Mirroring(h) == BitAnd(h.Flag6, \h01)

\* mappers.Create: the implementation registered for the header's mapper
\* number, the reference mapper being the only one; nil for any other.
MappersCreate(h) == IF Mapper(h) = 0 THEN "Mapper000" ELSE "nil"

\* The rest of a load that accepts whatever graphics data it could read.
LoadDataAnyChr(img, header, pos) ==
    LET prg == ReaderRead(img, pos, PRGROMSize(header.PRG))
    IN  IF prg.n # PRGROMSize(header.PRG)
        THEN [cart |-> Nil, err |-> "invalid PRG data"]
        ELSE IF prg.err # "nil"
        THEN [cart |-> Nil, err |-> prg.err]
        ELSE [cart |-> [Mirroring |-> Mirroring(header), imageValid |-> TRUE,
                        mapperId |-> Mapper(header),
                        numPRGBanks |-> header.PRG, numCHRBanks |-> header.CHR,
                        lenPRG |-> PRGROMSize(header.PRG),
                        lenCHR |-> CHRROMSize(header.CHR),
                        memPRG |-> Block(img, pos, PRGROMSize(header.PRG)),
                        memCHR |-> Block(img, pos + PRGROMSize(header.PRG),
                                         CHRROMSize(header.CHR)),
                        mapper |-> MappersCreate(header)],
              err |-> "nil"]

\* Load from the allocation of the storage on, the reader being at pos:
\* memPRG and memCHR of the header's sizes (lenPRG, lenCHR), one Read into
\* each, and the cartridge.
LoadData(img, header, pos) ==
    LET prg == ReaderRead(img, pos, PRGROMSize(header.PRG))
        chr == ReaderRead(img, pos + PRGROMSize(header.PRG), CHRROMSize(header.CHR))
    IN  IF prg.n # PRGROMSize(header.PRG)
        THEN [cart |-> Nil, err |-> "invalid PRG data"]
        ELSE IF prg.err # "nil"
        THEN [cart |-> Nil, err |-> prg.err]
        ELSE IF chr.n # CHRROMSize(header.CHR)
        THEN [cart |-> Nil, err |-> "invalid CHR data"]
        ELSE IF chr.err # "nil"
        THEN [cart |-> Nil, err |-> chr.err]
        ELSE [cart |-> [Mirroring |-> Mirroring(header), imageValid |-> TRUE,
                        mapperId |-> Mapper(header),
                        numPRGBanks |-> header.PRG, numCHRBanks |-> header.CHR,
                        lenPRG |-> PRGROMSize(header.PRG),
                        lenCHR |-> CHRROMSize(header.CHR),
                        memPRG |-> Block(img, pos, PRGROMSize(header.PRG)),
                        memCHR |-> Block(img, pos + PRGROMSize(header.PRG),
                                         CHRROMSize(header.CHR)),
                        mapper |-> MappersCreate(header)],
              err |-> "nil"]

\* A load that checks the trainer is there but reads the program data from
\* where the trainer starts.
LoadKeepsTrainer(img) ==
    LET parsed(h) ==
            IF h.header = Nil
            THEN [cart |-> Nil, err |-> "invalid iNES header"]
            ELSE IF Trainer(h.header)
                    /\ Min(TrainerSize, img.size - HeaderSize) # TrainerSize
            THEN [cart |-> Nil, err |-> "invalid iNES header with trainer flag set"]
            ELSE LoadData(img, h.header, HeaderSize)
    IN  IF img.reader = "nil" THEN [cart |-> Nil, err |-> "invalid reader"]
        ELSE parsed(NewHeader(img))

\* Load: no cartridge for a nil reader; otherwise the header, the trainer
\* discarded with io.CopyN when the header declares one, then the storage.
Load(img) ==
    LET parsed(h) ==
            IF h.header = Nil
            THEN [cart |-> Nil, err |-> "invalid iNES header"]
            ELSE IF Trainer(h.header)
            THEN IF Min(TrainerSize, img.size - HeaderSize) # TrainerSize
                 THEN [cart |-> Nil, err |-> "invalid iNES header with trainer flag set"]
                 ELSE LoadData(img, h.header, HeaderSize + TrainerSize)
            ELSE LoadData(img, h.header, HeaderSize)
    IN  IF img.reader = "nil" THEN [cart |-> Nil, err |-> "invalid reader"]
        ELSE parsed(NewHeader(img))

\* Bank counts of the headers Load is given: NewHeader takes the two count
\* bytes as they are, zero included.
HeaderPrgCounts == {0, 1, 2}

HeaderChrCounts == {0, 1}

\* The program data of the image: bytes that differ at both ends of either
\* 16 KiB bank, PrgFill elsewhere.
ImageBytes ==
    (\h0000 :> \h11) @@ (\h3FFF :> \h22) @@ (\h4000 :> \h33) @@ (\h7FFF :> \h44)

\* The sixteen header bytes.
HeaderBytes(magic, prg, chr, flag6, flag7, flag10, pad) ==
    magic \o <<prg, chr, flag6, flag7, 0, 0, flag10>> \o pad

\* A file holding a header for mapper 0 without trainer, prg banks of
\* ImageBytes and chr banks of ChrFill.
Rom(prg, chr) ==
    [head |-> HeaderBytes(standardIdentifier, prg, chr, 0, 0, 0, standardPadding),
     size |-> HeaderSize + PRGROMSize(prg) + CHRROMSize(chr),
     bytes |-> [o \in {x + HeaderSize : x \in {y \in DOMAIN ImageBytes : y < PRGROMSize(prg)}}
                  |-> ImageBytes[o - HeaderSize]],
     reader |-> "os.File"]

\* Header bytes the loader is tried on: identifiers right and wrong, bank
\* counts, flag bytes 6 and 7 with either nibble empty, full and mixed, flag
\* byte 10, and the five reserved bytes 11 to 15 with each one set in turn.
Identifiers ==
    { standardIdentifier, <<\h4E, \h45, \h53, \h00>>, <<\h4F, \h45, \h53, \h1A>> }

CountBytes == {0, 1, 2, 255}

FlagBytes == {\h00, \h0F, \h10, \hA5, \hF0, \hFF}

Flag10Bytes == {\h00, \h01, \h32}

ReservedBytes ==
    { <<0, 0, 0, 0, 0>>, <<1, 0, 0, 0, 0>>, <<0, 1, 0, 0, 0>>, <<0, 0, 1, 0, 0>>,
      <<0, 0, 0, 1, 0>>, <<0, 0, 0, 0, 1>>, <<255, 255, 255, 255, 255>> }

\* Flag bytes 6 of the images loaded: mapper 0 and mapper 1, without and
\* with trainer.
LoadFlags == {\h00, \h04, \h10, \h14}

\* The length an image with these header bytes is to have: header, trainer
\* when bit 2 of flag byte 6 is set, program data, graphics data.
Needed(head) ==
    16 + (IF (head[7] \div 4) % 2 = 1 THEN 512 ELSE 0) + head[5] * 16384 + head[6] * 8192

\* Image offsets that hold a byte of their own, at and around the places
\* each part of the data can start or end, and the byte there.
MarkOffsets ==
    { s + o : s \in {16, 528},
              o \in {0, 1, 511, 512, 16383, 16384, 24575, 24576, 32767, 32768, 40959} }

Mark(o) == (o % 251) + 1

\* The image of size bytes that starts with head.
Image(head, size, reader) ==
    [head |-> SubSeq(head, 1, Min(HeaderSize, size)),
     size |-> size,
     bytes |-> [o \in {x \in MarkOffsets : x < size} |-> Mark(o)],
     reader |-> reader]

\* The nil io.Reader: nothing can be read from it.
NilReader == [head |-> << >>, size |-> 0, bytes |-> << >>, reader |-> "nil"]

\* Lengths an image is cut to: nothing, less than a header, one byte short
\* of and exactly up to the end of each part, and one byte too many.
Cuts(head) ==
    { n \in {0, 15, 16,
             Needed(head) - head[6] * 8192 - head[5] * 16384 - 1,
             Needed(head) - head[6] * 8192 - head[5] * 16384,
             Needed(head) - head[6] * 8192 - 1,
             Needed(head) - head[6] * 8192,
             Needed(head) - 1, Needed(head), Needed(head) + 1} : n >= 0 }

Images ==
    {Image(HeaderBytes(standardIdentifier, prg, chr, flag6, flag7, 0, standardPadding),
           Needed(HeaderBytes(standardIdentifier, prg, chr, flag6, flag7, 0, standardPadding)),
           "bytes.Reader") :
         prg \in CountBytes, chr \in CountBytes, flag6 \in FlagBytes, flag7 \in FlagBytes}
    \cup {Image(HeaderBytes(id, 1, 1, flag6, 0, flag10, reserved),
                Needed(HeaderBytes(id, 1, 1, flag6, 0, flag10, reserved)), "bytes.Reader") :
         id \in Identifiers, flag6 \in {\h00, \h04}, flag10 \in Flag10Bytes,
         reserved \in ReservedBytes}
    \cup UNION {{Image(HeaderBytes(standardIdentifier, prg, chr, flag6, 0, 0, standardPadding),
                       size, reader) :
                    size \in Cuts(HeaderBytes(standardIdentifier, prg, chr, flag6, 0, 0,
                                              standardPadding)),
                    reader \in {"bytes.Reader", "os.File"}} :
                prg \in HeaderPrgCounts, chr \in HeaderChrCounts, flag6 \in LoadFlags}

\* Addresses the processor side is probed at: work RAM and its mirrors, the
\* peripheral block and its mirrors, the unmapped range, both halves of the
\* cartridge window.
CpuProbes ==
    { \h0000, \h0001, \h0800, \h1000, \h1800, \h07FF, \h1FFF,
      \h2000, \h2008, \h3FF8, \h3FFF, \h4000, \h7FFF,
      \h8000, \hBFFF, \hC000, \hFFFF }

\* Addresses the graphics side of the cartridge is probed at.
PpuProbes == { \h0000, \h1FFF, \h2000, \hFFFF }

\* Bytes written at the ports.
ProbeData == { \h00, \h5A }

\* Program-storage sizes, in 16 KiB banks, the mapper tells apart.
BankCounts == {1, 2}

\* Images run on the NES bus.
BusPrograms == {ProgDemo, ProgFlags}

----------------------------------------------------------------------------
(* The processor on the flat bus, driven call by call through its exported *)
(* methods: from the state loadCPU leaves, Clock(), Reset(), IRQ() and     *)
(* NMI() are called one at a time and in any order, so that a call can     *)
(* fall between two Clock() calls of one instruction.  (The front end's    *)
(* <Space> key, which clocks an instruction to its end before the next key *)
(* is read, is the single step modelled further down.)                     *)

M == [cpu |-> cpu, bus |-> bus]

\* No image is at hand.
NoRom == [image |-> Nil, call |-> "none", header |-> Nil, cart |-> Nil, err |-> "nil"]

\* No step is under way and no call has ended in a run-time panic.
NoDriver ==
    [running |-> FALSE, clocks |-> 0, startCycles |-> 0, executed |-> 0,
     attaches |-> 0, fatal |-> FALSE]

\* Disassemble has not been called.
NoListing == [called |-> FALSE, start |-> 0, end |-> 0, bus |-> Nil]

\* The listing Disassemble(start, end) returned on the bus b, kept as the
\* call that made it: a listing never changes once it is returned, and its
\* Index and Lines are those Disassemble makes of that memory.
Listing(b, start, end) == [called |-> TRUE, start |-> start, end |-> end, bus |-> b]

\* Index and Lines of the listing l.
Listed(l) == Disassemble([cpu |-> NewMG6502, bus |-> l.bus], l.start, l.end)

\* No access has been made at a port.
NoAccess ==
    [port |-> "none", addr |-> 0, data |-> 0, via |-> "none", flag |-> FALSE, panic |-> FALSE]

\* The machine a call leaves behind is the next state.
Becomes(m) == cpu' = m.cpu /\ bus' = m.bus

\* The machine the program starts from.
Starts(m) == cpu = m.cpu /\ bus = m.bus

\* loadCPU up to the image: new processor, new bus filled with 0xFF, the
\* bytes written.  Disassemble(0x0000, 0xFFFF) and cpu.Reset() follow.
Loaded(p) == LoadSegments([cpu |-> NewMG6502, bus |-> NewPlainBus], p)

\* loadCPU: the image, the listing of all of memory, cpu.Reset().
Init ==
    /\ \E p \in Programs :
          /\ Starts(Reset(Loaded(p)))
          /\ listing = Listing(Loaded(p).bus, \h0000, \hFFFF)
    /\ last = "loadCPU"
    /\ calls = 0
    /\ ticks = 0 /\ ppuClocks = 0 /\ cpuClocks = 0
    /\ access = NoAccess
    /\ rom = NoRom
    /\ driver = NoDriver
    /\ written = << >>

\* One call of Clock().
DoClock ==
    /\ cpu.clockCount < MaxClocks
    /\ Becomes(Clock(M))
    /\ last' = "Clock"
    /\ UNCHANGED <<calls, ticks, ppuClocks, cpuClocks, access, rom, driver, written, listing>>

DoReset ==
    /\ calls < MaxCalls
    /\ Becomes(Reset(M))
    /\ last' = "Reset"
    /\ calls' = calls + 1
    /\ UNCHANGED <<ticks, ppuClocks, cpuClocks, access, rom, driver, written, listing>>

DoIRQ ==
    /\ calls < MaxCalls
    /\ Becomes(IRQ(M))
    /\ last' = "IRQ"
    /\ calls' = calls + 1
    /\ UNCHANGED <<ticks, ppuClocks, cpuClocks, access, rom, driver, written, listing>>

DoNMI ==
    /\ calls < MaxCalls
    /\ Becomes(NMI(M))
    /\ last' = "NMI"
    /\ calls' = calls + 1
    /\ UNCHANGED <<ticks, ppuClocks, cpuClocks, access, rom, driver, written, listing>>

Next == DoClock \/ DoReset \/ DoIRQ \/ DoNMI

Spec == Init /\ [][Next]_vars

----------------------------------------------------------------------------
(* The console: processor, work RAM, cartridge and PPU on the NES bus,     *)
(* driven by Bus.Reset() and Bus.Clock().                                  *)

\* A console with a cartridge inserted, after Bus.Reset().
InitBus ==
    /\ \E p \in BusPrograms, banks \in BankCounts :
          Starts(BusReset(LoadSegments([cpu |-> NewMG6502,
                                        bus |-> InsertCartridge(NewBus(NewMG6502), NewCartridge(banks))], p)))
    /\ last = "Bus.Reset"
    /\ calls = 0
    /\ ticks = 0 /\ ppuClocks = 0 /\ cpuClocks = 0
    /\ access = NoAccess
    /\ rom = NoRom
    /\ driver = NoDriver
    /\ written = << >>
    /\ listing = NoListing

\* Bus.Clock(): the PPU is clocked, the processor on every third call.
Ticked(r) ==
    /\ Becomes(r.m)
    /\ ticks' = ticks + 1
    /\ ppuClocks' = ppuClocks + 1
    /\ cpuClocks' = IF r.cpuClocked THEN cpuClocks + 1 ELSE cpuClocks

DoBusClock ==
    /\ ticks < MaxTicks
    /\ Ticked(BusClock(M))
    /\ last' = "Bus.Clock"
    /\ UNCHANGED <<calls, access, rom, driver, written, listing>>

DoBusReset ==
    /\ calls < MaxBusResets
    /\ Becomes(BusReset(M))
    /\ last' = "Bus.Reset"
    /\ calls' = calls + 1
    /\ ticks' = 0 /\ ppuClocks' = 0 /\ cpuClocks' = 0
    /\ UNCHANGED <<access, rom, driver, written, listing>>

NextBus == DoBusClock \/ DoBusReset

SpecBus == InitBus /\ [][NextBus]_vars

----------------------------------------------------------------------------
(* The processor on the flat bus, loaded with an image that leads to one   *)
(* instruction under study and taken through it by Clock() alone, one call *)
(* of the method a step.                                                   *)

InitUnit ==
    /\ \E p \in UnitPrograms :
          /\ Starts(Reset(Loaded(p)))
          /\ listing = Listing(Loaded(p).bus, \h0000, \hFFFF)
    /\ last = "loadCPU"
    /\ calls = 0
    /\ ticks = 0 /\ ppuClocks = 0 /\ cpuClocks = 0
    /\ access = NoAccess
    /\ rom = NoRom
    /\ driver = NoDriver
    /\ written = << >>

DoUnitClock ==
    /\ cpu.clockCount < MaxUnitClocks
    /\ Becomes(Clock(M))
    /\ last' = "Clock"
    /\ UNCHANGED <<calls, ticks, ppuClocks, cpuClocks, access, rom, driver, written, listing>>

NextUnit == DoUnitClock

SpecUnit == InitUnit /\ [][NextUnit]_vars

----------------------------------------------------------------------------
(* The bus and the cartridge as memory devices: a console with a cartridge *)
(* inserted, accessed call by call at Bus.CpuRead / Bus.CpuWrite and at    *)
(* the cartridge's graphics-side PpuRead / PpuWrite.  A call that panics   *)
(* ends the program.                                                       *)

\* NewMG6502, NewBus, Load and InsertCartridge.
InitPorts ==
    /\ \E prg \in HeaderPrgCounts, chr \in HeaderChrCounts :
          Starts([cpu |-> NewMG6502,
                  bus |-> InsertCartridge(NewBus(NewMG6502), Load(Rom(prg, chr)).cart)])
    /\ last = "InsertCartridge"
    /\ calls = 0
    /\ ticks = 0 /\ ppuClocks = 0 /\ cpuClocks = 0
    /\ access = NoAccess
    /\ rom = NoRom
    /\ driver = NoDriver
    /\ written = << >>
    /\ listing = NoListing

\* One more call is made, unless the run is over.
Called(name) ==
    /\ calls < MaxPortCalls
    /\ ~access.panic
    /\ last' = name
    /\ calls' = calls + 1
    /\ UNCHANGED <<cpu, ticks, ppuClocks, cpuClocks, rom, driver, written, listing>>

DoCpuRead ==
    /\ Called("Bus.CpuRead")
    /\ \E a \in CpuProbes :
          LET done(r) ==
                  access' = [port |-> "CpuRead", addr |-> a, data |-> r.data,
                             via |-> r.via, flag |-> r.via = "cart", panic |-> r.panic]
          IN  done(BusCpuReadCall(bus, a))
    /\ UNCHANGED bus

DoCpuWrite ==
    /\ Called("Bus.CpuWrite")
    /\ \E a \in CpuProbes, v \in ProbeData :
          LET done(r) ==
                  /\ bus' = IF r.panic THEN bus ELSE r.b
                  /\ access' = [port |-> "CpuWrite", addr |-> a, data |-> v,
                                via |-> r.via, flag |-> r.via = "cart", panic |-> r.panic]
          IN  done(BusCpuWriteCall(bus, a, v))

DoPpuRead ==
    /\ Called("Cartridge.PpuRead")
    /\ \E a \in PpuProbes :
          LET done(r) ==
                  access' = [port |-> "PpuRead", addr |-> a, data |-> r.data,
                             via |-> IF r.flag THEN "cart" ELSE "none",
                             flag |-> r.flag, panic |-> r.panic]
          IN  done(CartridgePpuRead(bus.cart, a))
    /\ UNCHANGED bus

DoPpuWrite ==
    /\ Called("Cartridge.PpuWrite")
    /\ \E a \in PpuProbes, v \in ProbeData :
          LET done(r) ==
                  /\ bus' = IF r.panic THEN bus ELSE [bus EXCEPT !.cart = r.cart]
                  /\ access' = [port |-> "PpuWrite", addr |-> a, data |-> v,
                                via |-> IF r.flag THEN "cart" ELSE "none",
                                flag |-> r.flag, panic |-> r.panic]
          IN  done(CartridgePpuWrite(bus.cart, a, v))

NextPorts == DoCpuRead \/ DoCpuWrite \/ DoPpuRead \/ DoPpuWrite

SpecPorts == InitPorts /\ [][NextPorts]_vars

----------------------------------------------------------------------------
(* The bus as NewBus leaves it, its cartridge slot empty, accessed call by *)
(* call at Bus.CpuRead / Bus.CpuWrite before and after a cartridge is      *)
(* inserted.                                                               *)

InitSlot ==
    /\ Starts([cpu |-> NewMG6502, bus |-> NewBus(NewMG6502)])
    /\ last = "NewBus"
    /\ calls = 0
    /\ ticks = 0 /\ ppuClocks = 0 /\ cpuClocks = 0
    /\ access = NoAccess
    /\ rom = NoRom
    /\ driver = NoDriver
    /\ written = << >>
    /\ listing = NoListing

DoInsertCartridge ==
    /\ bus.cart = Nil
    /\ ~access.panic
    /\ \E prg \in HeaderPrgCounts, chr \in HeaderChrCounts :
          bus' = InsertCartridge(bus, Load(Rom(prg, chr)).cart)
    /\ last' = "InsertCartridge"
    /\ UNCHANGED <<cpu, calls, ticks, ppuClocks, cpuClocks, access, rom, driver, written, listing>>

NextSlot == DoInsertCartridge \/ DoCpuRead \/ DoCpuWrite

SpecSlot == InitSlot /\ [][NextSlot]_vars

----------------------------------------------------------------------------
(* The flat 64 KiB bus of the terminal front end after its Reset(),        *)
(* written and read call by call; written keeps the byte each address was  *)
(* last given.                                                             *)

\* Addresses at both ends of the memory and inside it, and the bytes
\* written: the fill byte, zero and another.
FlatProbes == { \h0000, \h0001, \h0002, \h8000, \hFFFE, \hFFFF }

FlatData == { \h00, \hDE, \hFF }

InitFlat ==
    /\ Starts([cpu |-> NewMG6502, bus |-> NewPlainBus])
    /\ last = "PlainBus.Reset"
    /\ calls = 0
    /\ ticks = 0 /\ ppuClocks = 0 /\ cpuClocks = 0
    /\ access = NoAccess
    /\ rom = NoRom
    /\ driver = NoDriver
    /\ written = << >>
    /\ listing = NoListing

DoFlatWrite ==
    /\ calls < MaxFlatCalls
    /\ \E a \in FlatProbes, v \in FlatData :
          /\ bus' = PlainBusCpuWrite(bus, a, v)
          /\ written' = [x \in DOMAIN written \cup {a} |-> IF x = a THEN v ELSE written[x]]
          /\ access' = [port |-> "CpuWrite", addr |-> a, data |-> v,
                        via |-> "plain", flag |-> FALSE, panic |-> FALSE]
    /\ last' = "PlainBus.CpuWrite"
    /\ calls' = calls + 1
    /\ UNCHANGED <<cpu, ticks, ppuClocks, cpuClocks, rom, driver, listing>>

\* CpuRead(addr, true): the read-only flag is passed and not looked at.
DoFlatRead ==
    /\ calls < MaxFlatCalls
    /\ \E a \in FlatProbes :
          access' = [port |-> "CpuRead", addr |-> a, data |-> PlainBusCpuRead(bus, a),
                     via |-> "plain", flag |-> TRUE, panic |-> FALSE]
    /\ last' = "PlainBus.CpuRead"
    /\ calls' = calls + 1
    /\ UNCHANGED <<cpu, bus, ticks, ppuClocks, cpuClocks, rom, driver, written, listing>>

NextFlat == DoFlatWrite \/ DoFlatRead

SpecFlat == InitFlat /\ [][NextFlat]_vars

----------------------------------------------------------------------------
(* The listing: after loadCPU the processor on the flat bus is clocked, its *)
(* flags are set and cleared with SetFlag, and Disassemble(start, end) is  *)
(* called once more.                                                       *)

InitListing ==
    /\ \E p \in ListingPrograms :
          /\ Starts(Reset(Loaded(p)))
          /\ listing = Listing(Loaded(p).bus, \h0000, \hFFFF)
    /\ last = "loadCPU"
    /\ calls = 0
    /\ ticks = 0 /\ ppuClocks = 0 /\ cpuClocks = 0
    /\ access = NoAccess
    /\ rom = NoRom
    /\ driver = NoDriver
    /\ written = << >>

DoListingClock ==
    /\ last # "Disassemble"
    /\ cpu.clockCount < MaxListingClocks
    /\ Becomes(Clock(M))
    /\ last' = "Clock"
    /\ UNCHANGED <<calls, ticks, ppuClocks, cpuClocks, access, rom, driver, written, listing>>

\* Disassemble assigns no field of the processor and only reads the bus.
DoDisassemble ==
    /\ last # "Disassemble"
    /\ \E range \in ListingRanges : listing' = Listing(bus, range[1], range[2])
    /\ last' = "Disassemble"
    /\ UNCHANGED <<cpu, bus, calls, ticks, ppuClocks, cpuClocks, access, rom, driver, written>>

\* SetFlag(flag, v), the exported setter of one status flag.
DoSetFlag ==
    /\ last # "Disassemble"
    /\ \E flag \in SetFlagInputs, v \in BOOLEAN : Becomes(SetFlag(M, flag, v))
    /\ last' = "SetFlag"
    /\ UNCHANGED <<calls, ticks, ppuClocks, cpuClocks, access, rom, driver, written, listing>>

NextListing == DoListingClock \/ DoDisassemble \/ DoSetFlag

SpecListing == InitListing /\ [][NextListing]_vars

----------------------------------------------------------------------------
(* The loader, given an image: ines.NewHeader or Load is called on it once *)
(* and what it returned is kept.                                           *)

InitLoad ==
    /\ Starts([cpu |-> NewMG6502, bus |-> NewBus(NewMG6502)])
    /\ last = "NewBus"
    /\ calls = 0
    /\ ticks = 0 /\ ppuClocks = 0 /\ cpuClocks = 0
    /\ access = NoAccess
    /\ \E img \in Images \cup {NilReader} : rom = [NoRom EXCEPT !.image = img]
    /\ driver = NoDriver
    /\ written = << >>
    /\ listing = NoListing

DoNewHeader ==
    /\ rom.call = "none"
    /\ LET done(r) ==
               IF r = Panic
               THEN /\ rom' = [rom EXCEPT !.call = "NewHeader"]
                    /\ driver' = [driver EXCEPT !.fatal = TRUE]
               ELSE /\ rom' = [rom EXCEPT !.call = "NewHeader", !.header = r.header,
                                          !.err = r.err]
                    /\ UNCHANGED driver
       IN  done(NewHeader(rom.image))
    /\ last' = "NewHeader"
    /\ UNCHANGED <<cpu, bus, calls, ticks, ppuClocks, cpuClocks, access, written, listing>>

DoLoad ==
    /\ rom.call = "none"
    /\ LET done(r) == rom' = [rom EXCEPT !.call = "Load", !.cart = r.cart, !.err = r.err]
       IN  done(Load(rom.image))
    /\ last' = "Load"
    /\ UNCHANGED <<cpu, bus, calls, ticks, ppuClocks, cpuClocks, access, driver, written, listing>>

NextLoad == DoNewHeader \/ DoLoad

SpecLoad == InitLoad /\ [][NextLoad]_vars

----------------------------------------------------------------------------
(* The emulator's single step, the <Space> key of the terminal front end:  *)
(* cpu.Clock(), then cpu.Clock() again for as long as cpu.Complete() is    *)
(* false.  Each Clock() call is one step of the model; the keys that call  *)
(* Reset(), IRQ() and NMI() are read between two single steps only.        *)

\* The bookkeeping of one Clock() call made inside a single step: an
\* instruction is executed by the call that finds the cycle counter at zero.
Clocked(d, cycles) ==
    [d EXCEPT !.clocks = d.clocks + 1,
              !.executed = d.executed + (IF cycles = 0 THEN 1 ELSE 0)]

InitStep ==
    /\ \E p \in Programs :
          /\ Starts(Reset(Loaded(p)))
          /\ listing = Listing(Loaded(p).bus, \h0000, \hFFFF)
    /\ last = "loadCPU"
    /\ calls = 0
    /\ ticks = 0 /\ ppuClocks = 0 /\ cpuClocks = 0
    /\ access = NoAccess
    /\ rom = NoRom
    /\ driver = NoDriver
    /\ written = << >>

DoStepClock ==
    /\ ~driver.running
    /\ cpu.clockCount < MaxClocks
    /\ Becomes(Clock(M))
    /\ driver' = Clocked([NoDriver EXCEPT !.running = TRUE, !.startCycles = cpu.cycles],
                         cpu.cycles)
    /\ last' = "Clock"
    /\ UNCHANGED <<calls, ticks, ppuClocks, cpuClocks, access, rom, written, listing>>

DoLoopClock ==
    /\ driver.running
    /\ ~Complete(M)
    /\ cpu.clockCount < MaxClocks
    /\ Becomes(Clock(M))
    /\ driver' = Clocked(driver, cpu.cycles)
    /\ last' = "Clock"
    /\ UNCHANGED <<calls, ticks, ppuClocks, cpuClocks, access, rom, written, listing>>

DoLoopExit ==
    /\ driver.running
    /\ Complete(M)
    /\ driver' = [driver EXCEPT !.running = FALSE]
    /\ last' = "Step"
    /\ UNCHANGED <<cpu, bus, calls, ticks, ppuClocks, cpuClocks, access, rom, written, listing>>

DoKeyReset == ~driver.running /\ DoReset

DoKeyIRQ == ~driver.running /\ DoIRQ

DoKeyNMI == ~driver.running /\ DoNMI

NextStep ==
    DoStepClock \/ DoLoopClock \/ DoLoopExit \/ DoKeyReset \/ DoKeyIRQ \/ DoKeyNMI

SpecStep == InitStep /\ [][NextStep]_vars

----------------------------------------------------------------------------
(* The processor as constructed, with no bus until Attach() gives it one,  *)
(* and Attach(nil) taking the bus away again.  A call that reaches the bus *)
(* while there is none dereferences nil: the call ends in a run-time panic *)
(* before it has assigned anything, and the run is over.                   *)

\* The buses a driver may attach: none, or a flat bus holding a program.
Attachable ==
    {Nil} \cup {LoadSegments([cpu |-> NewMG6502, bus |-> NewPlainBus], p).bus :
                    p \in Programs}

InitNoBus ==
    /\ Starts([cpu |-> NewMG6502, bus |-> Nil])
    /\ last = "NewMG6502"
    /\ calls = 0
    /\ ticks = 0 /\ ppuClocks = 0 /\ cpuClocks = 0
    /\ access = NoAccess
    /\ rom = NoRom
    /\ driver = NoDriver
    /\ written = << >>
    /\ listing = NoListing

Panics == driver' = [driver EXCEPT !.fatal = TRUE] /\ UNCHANGED <<cpu, bus>>

DoAttach ==
    /\ ~driver.fatal
    /\ driver.attaches < MaxAttaches
    /\ \E b \in Attachable : Becomes(Attach(M, b))
    /\ driver' = [driver EXCEPT !.attaches = driver.attaches + 1]
    /\ last' = "Attach"
    /\ UNCHANGED <<calls, ticks, ppuClocks, cpuClocks, access, rom, written, listing>>

\* Reset() reads the reset vector first of all.
DoResetNoBus ==
    /\ ~driver.fatal
    /\ calls < MaxCalls
    /\ IF bus = Nil THEN Panics ELSE Becomes(Reset(M)) /\ UNCHANGED driver
    /\ last' = "Reset"
    /\ calls' = calls + 1
    /\ UNCHANGED <<ticks, ppuClocks, cpuClocks, access, rom, written, listing>>

\* Clock() reaches the bus only when the cycle counter is zero, to fetch
\* the opcode; otherwise it counts the cycle and returns.
DoClockNoBus ==
    /\ ~driver.fatal
    /\ cpu.clockCount < MaxClocks
    /\ IF bus = Nil /\ cpu.cycles = 0 THEN Panics ELSE Becomes(Clock(M)) /\ UNCHANGED driver
    /\ last' = "Clock"
    /\ UNCHANGED <<calls, ticks, ppuClocks, cpuClocks, access, rom, written, listing>>

NextNoBus == DoAttach \/ DoResetNoBus \/ DoClockNoBus

SpecNoBus == InitNoBus /\ [][NextNoBus]_vars

----------------------------------------------------------------------------
(* Properties.  A step is recognised by what only that call changes:       *)
(* Clock() is the one call that advances clockCount, and the history       *)
(* variables last and calls name the other calls.                          *)

ClockStep == cpu'.clockCount = cpu.clockCount + 1

IRQStep == calls' = calls + 1 /\ last' = "IRQ"

NMIStep == calls' = calls + 1 /\ last' = "NMI"

\* n successive Clock() calls.
RECURSIVE ClockN(_, _)
ClockN(m, n) == IF n = 0 THEN m ELSE ClockN(Clock(m), n - 1)

\* A byte of the flat bus.
Mem(b, addr) == PlainBusCpuRead(b, addr)

\* The table entry of the opcode at the program counter.
NextInstruction(m) == Lookup[read(m, m.cpu.PC) + 1]

\* The instruction at the program counter carried out on m: opcode latched,
\* program counter past the opcode, addressing mode resolved, operation run.
Addressed(m) ==
    AddrMode([m EXCEPT !.cpu.opcode = read(m, m.cpu.PC),
                       !.cpu.FLAG = BitOr(m.cpu.FLAG, FlagUnused),
                       !.cpu.PC = U16(m.cpu.PC + 1),
                       !.cpu.cycles = NextInstruction(m).cycles],
             NextInstruction(m).am)

Operated(m) ==
    LET run(a) == Operate(a.m, NextInstruction(m).op)
    IN  run(Addressed(m))

\* The branch adjustment: +1 when the branch at the program counter is taken,
\* +1 more when its target lies in another page than the next instruction.
BranchTaken(m) ==
    LET op == NextInstruction(m).op
    IN  \/ op = "BCC" /\ GetFlag(m, FlagCarry) = 0
        \/ op = "BCS" /\ GetFlag(m, FlagCarry) = 1
        \/ op = "BNE" /\ GetFlag(m, FlagZero) = 0
        \/ op = "BEQ" /\ GetFlag(m, FlagZero) = 1
        \/ op = "BPL" /\ GetFlag(m, FlagNegative) = 0
        \/ op = "BMI" /\ GetFlag(m, FlagNegative) = 1
        \/ op = "BVC" /\ GetFlag(m, FlagOverflow) = 0
        \/ op = "BVS" /\ GetFlag(m, FlagOverflow) = 1

BranchAdjust(m) ==
    LET next == U16(m.cpu.PC + 2)
        rel == read(m, U16(m.cpu.PC + 1))
        target == U16(next + (IF rel >= 128 THEN rel + 65280 ELSE rel))
    IN  IF ~BranchTaken(m) THEN 0
        ELSE IF target \div 256 # next \div 256 THEN 2 ELSE 1

\* What the instruction at the program counter costs in all.
TotalCost(m) ==
    NextInstruction(m).cycles + BitAnd(Addressed(m).r, Operated(m).r) + BranchAdjust(m)

\* The processor after the instruction, but for the two counters Clock keeps.
Executed(c, e) ==
    /\ c.A = e.A /\ c.X = e.X /\ c.Y = e.Y /\ c.SP = e.SP /\ c.PC = e.PC
    /\ c.FLAG = BitOr(e.FLAG, FlagUnused)
    /\ c.opcode = e.opcode

\* C1: a Clock() call made with the cycle counter at 0 fetches the opcode at
\* the program counter, executes that one instruction and charges it its table
\* cycles, plus one when both the addressing mode and the operation signal an
\* extra cycle, plus the branch adjustment (the call itself counts as the first
\* of these cycles); a Clock() call made with the counter not 0 decrements the
\* counter and changes no register, no flag and no memory cell.
C1_ClockCharges ==
    [][ClockStep =>
         IF cpu.cycles = 0
         THEN /\ cpu'.cycles = TotalCost(M) - 1
              /\ Executed(cpu', Operated(M).m.cpu)
              /\ bus' = Operated(M).m.bus
         ELSE /\ cpu' = [cpu EXCEPT !.cycles = cpu.cycles - 1,
                                    !.clockCount = cpu.clockCount + 1]
              /\ bus' = bus]_vars

\* ORA $80FF,X with X = 1 has just been executed: base 4, one extra cycle for
\* the page crossed, the fetching call already counted.
C1_Witness ==
    last = "Clock" /\ cpu.opcode = \h1D /\ cpu.addrAbs = \h8100 /\ cpu.cycles = 4

\* C3: right after Reset() the program counter is the little-endian word at
\* 0xFFFC/0xFFFD, SP is 0xFD, A, X and Y are 0, the status register is 0x20,
\* the cycle counter is 8, and the next eight Clock() calls only count down,
\* so that the ninth is the first to fetch an opcode.
C3_ResetState ==
    last \in {"loadCPU", "Reset"} =>
        /\ cpu.PC = Mem(bus, \hFFFC) + 256 * Mem(bus, \hFFFD)
        /\ cpu.SP = \hFD
        /\ cpu.A = 0 /\ cpu.X = 0 /\ cpu.Y = 0
        /\ cpu.FLAG = \h20
        /\ cpu.cycles = 8
        /\ ClockN(M, 8) = [M EXCEPT !.cpu.cycles = 0,
                                    !.cpu.clockCount = cpu.clockCount + 8]

\* Reset() called in the middle of a run, after instructions have executed.
C3_Witness ==
    last = "Reset" /\ cpu.opcode = \h1D /\ cpu.clockCount > 10 /\ cpu.PC = \h80F7

\* C4: in every state the processor is observed in between calls, the Unused
\* bit (0x20) of the status register reads 1.
C4_UnusedReadsOne == BitAnd(cpu.FLAG, FlagUnused) = FlagUnused

\* PHP, which clears Unused after pushing the status byte, has just executed.
C4_Witness ==
    last = "Clock" /\ cpu.opcode = \h08 /\ cpu.cycles = 2 /\ cpu.SP = \hFC

\* C5: between instructions the Break bit (0x10) of the status register is 0.
C5_BreakReadsZero == BitAnd(cpu.FLAG, FlagBreak) = 0

\* C6: when the processor is about to fetch a JSR whose target holds an RTS,
\* then after the JSR (six cycles) and the RTS that follows it the program
\* counter is the address of the JSR plus 3 and SP is what it was.
C6_JsrRtsReturns ==
    LET returned(after) ==
            after.cpu.PC = U16(cpu.PC + 3) /\ after.cpu.SP = cpu.SP
    IN  (/\ cpu.cycles = 0
         /\ read(M, cpu.PC) = \h20
         /\ read(M, read16(M, U16(cpu.PC + 1))) = \h60)
        => returned(ClockN(M, 7))

\* C7: from a state with InterruptDisable clear whose IRQ vector points at an
\* RTI, IRQ() followed by the RTI (seven cycles of interrupt entry, then the
\* fetch) restores PC, SP and the flags N, V, D, I, Z and C, with Break
\* reading 0 and Unused reading 1.
C7_IrqRtiRestores ==
    LET restored(after) ==
            /\ after.cpu.PC = cpu.PC /\ after.cpu.SP = cpu.SP
            /\ \A f \in {FlagNegative, FlagOverflow, FlagDecimal,
                         FlagInterrupt, FlagZero, FlagCarry} :
                  GetFlag(after, f) = GetFlag(M, f)
            /\ GetFlag(after, FlagBreak) = 0
            /\ GetFlag(after, FlagUnused) = 1
    IN  (GetFlag(M, FlagInterrupt) = 0 /\ read(M, read16(M, \hFFFE)) = \h40)
        => restored(ClockN(IRQ(M), 8))

\* What interrupt entry through the given vector does to a processor with
\* stack pointer s: PC high byte at 0x0100+s, PC low byte at 0x0100+(s-1) mod
\* 256, the given status byte at 0x0100+(s-2) mod 256; SP = (s-3) mod 256;
\* InterruptDisable set; PC from the vector; the cycle counter as given; A,
\* X, Y untouched; no other memory cell written.
InterruptEntered(vector, cycles, status) ==
    /\ Mem(bus', \h0100 + cpu.SP) = cpu.PC \div 256
    /\ Mem(bus', \h0100 + U8(cpu.SP + 255)) = cpu.PC % 256
    /\ Mem(bus', \h0100 + U8(cpu.SP + 254)) = status
    /\ \A a \in (DOMAIN bus.mem \cup DOMAIN bus'.mem) \
                {\h0100 + cpu.SP, \h0100 + U8(cpu.SP + 255), \h0100 + U8(cpu.SP + 254)} :
          Mem(bus', a) = Mem(bus, a)
    /\ cpu'.SP = U8(cpu.SP + 253)
    /\ GetFlag([cpu |-> cpu'], FlagInterrupt) = 1
    /\ cpu'.PC = Mem(bus, vector) + 256 * Mem(bus, vector + 1)
    /\ cpu'.cycles = cycles
    /\ cpu'.A = cpu.A /\ cpu'.X = cpu.X /\ cpu'.Y = cpu.Y

\* C8: IRQ() called with InterruptDisable clear and stack pointer s pushes
\* the PC high byte, the PC low byte and the status byte as it is on entry
\* but for Break clear and Unused set (InterruptDisable still clear in it)
\* at 0x0100+s and the two cells below it (mod 256), leaves SP =
\* (s-3) mod 256, sets InterruptDisable, loads PC from 0xFFFE/0xFFFF, sets
\* the cycle counter to 7 and leaves A, X and Y unchanged.
C8_IrqTaken ==
    [][IRQStep /\ GetFlag(M, FlagInterrupt) = 0 =>
         InterruptEntered(\hFFFE, 7, BitOr(BitAnd(cpu.FLAG, 255 - FlagBreak), FlagUnused))]_vars

\* C9: IRQ() called while InterruptDisable is set changes nothing: no
\* register, no flag, not the cycle counter, no memory cell.
C9_IrqMasked ==
    [][IRQStep /\ GetFlag(M, FlagInterrupt) # 0 => cpu' = cpu /\ bus' = bus]_vars

\* IRQ() called right after NMI(): the cycle counter still holds NMI's 8.
C9_Witness ==
    last = "IRQ" /\ cpu.cycles = 8 /\ GetFlag(M, FlagInterrupt) = 1

\* C10: NMI() pushes and sets flags as a taken IRQ does, whatever
\* InterruptDisable is (the memory and the registers it leaves are those IRQ()
\* leaves when called with InterruptDisable cleared, but for PC and the cycle
\* counter; the status byte pushed has Break clear, Unused and
\* InterruptDisable set), loads PC from 0xFFFA/0xFFFB and sets the cycle
\* counter to 8.
C10_NmiTaken ==
    [][NMIStep =>
         /\ InterruptEntered(\hFFFA, 8,
                BitOr(BitAnd(cpu.FLAG, 255 - FlagBreak), FlagUnused + FlagInterrupt))
         /\ bus' = IRQ(SetFlag(M, FlagInterrupt, FALSE)).bus
         /\ cpu' = [IRQ(SetFlag(M, FlagInterrupt, FALSE)).cpu
                       EXCEPT !.PC = cpu'.PC, !.cycles = 8]]_vars

\* NMI() taken while InterruptDisable is set, inside the IRQ handler.
C10_Witness ==
    last = "NMI" /\ calls = 2 /\ cpu.SP = \hF7 /\ cpu.PC = \h8030 /\ cpu.cycles = 8

\* Page one, where the stack lives.
PageOne == \h0100

StackAddr(sp) == PageOne + U8(sp)

\* The word whose low byte is in the stack cell of sp and whose high byte is
\* in the stack cell above it, the stack pointer wrapping inside page one.
StackWord(b, sp) == Mem(b, StackAddr(sp + 1)) * 256 + Mem(b, StackAddr(sp))

StackOps == {"PHA", "PHP", "PLA", "PLP", "JSR", "RTS", "RTI", "BRK"}

\* C37: push, pop, pushPC and popPC, as used by PHA, PHP, PLA, PLP, JSR, RTS,
\* RTI, BRK, IRQ and NMI, access page one only, the stack pointer wrapping
\* modulo 256: no cell outside 0x0100..0x01FF is written, PLA brings the
\* byte of the stack cell above SP, RTS the word of the two cells above SP
\* (plus 1), RTI the word of the two cells above that of the status byte.
C37_StackInPageOne ==
    [][/\ ((ClockStep /\ cpu.cycles = 0 /\ NextInstruction(M).op \in StackOps)
              \/ (IRQStep /\ GetFlag(M, FlagInterrupt) = 0) \/ NMIStep) =>
            \A a \in (DOMAIN bus.mem \cup DOMAIN bus'.mem) :
                (a < PageOne \/ a > PageOne + 255) => Mem(bus', a) = Mem(bus, a)
       /\ (ClockStep /\ cpu.cycles = 0 /\ NextInstruction(M).op = "PLA") =>
            cpu'.A = Mem(bus, StackAddr(cpu.SP + 1))
       /\ (ClockStep /\ cpu.cycles = 0 /\ NextInstruction(M).op = "RTS") =>
            cpu'.PC = U16(StackWord(bus, cpu.SP + 1) + 1) /\ cpu'.SP = U8(cpu.SP + 2)
       /\ (ClockStep /\ cpu.cycles = 0 /\ NextInstruction(M).op = "RTI") =>
            cpu'.PC = StackWord(bus, cpu.SP + 2) /\ cpu'.SP = U8(cpu.SP + 3)]_vars

\* C38: a taken IRQ() or an NMI() called while cycles of an instruction are
\* still on the counter sets the counter to 7 or 8, dropping them; the PC it
\* pushes is the address the next opcode would have been fetched from once
\* they were spent, and A, X, Y and every memory cell but the three stack
\* cells written are what the instruction would have left.
C38_InterruptMidInstruction ==
    [][(((IRQStep /\ GetFlag(M, FlagInterrupt) = 0) \/ NMIStep) /\ cpu.cycles # 0) =>
         /\ cpu'.cycles = (IF last' = "IRQ" THEN 7 ELSE 8)
         /\ Mem(bus', StackAddr(cpu.SP)) = ClockN(M, cpu.cycles).cpu.PC \div 256
         /\ Mem(bus', StackAddr(cpu.SP + 255)) = ClockN(M, cpu.cycles).cpu.PC % 256
         /\ cpu'.A = ClockN(M, cpu.cycles).cpu.A
         /\ cpu'.X = ClockN(M, cpu.cycles).cpu.X
         /\ cpu'.Y = ClockN(M, cpu.cycles).cpu.Y
         /\ \A a \in (DOMAIN bus.mem \cup DOMAIN bus'.mem) \
                     {StackAddr(cpu.SP), StackAddr(cpu.SP + 255), StackAddr(cpu.SP + 254)} :
               Mem(bus', a) = Mem(ClockN(M, cpu.cycles).bus, a)]_vars

\* NMI() called after the first of the two cycles of LDX #$0A at 0x8000: the
\* counter went from 1 to 8, 0x8002 is on the stack and X holds 0x0A.
C38_Witness ==
    /\ last = "NMI" /\ calls = 1 /\ cpu.clockCount = 9 /\ cpu.cycles = 8
    /\ cpu.opcode = \hA2 /\ cpu.X = \h0A
    /\ Mem(bus, \h01FD) = \h80 /\ Mem(bus, \h01FC) = \h02

\* The 16-bit operand of the instruction at the program counter, and that
\* operand plus the index register its addressing mode names.
Operand(m) == read16(m, U16(m.cpu.PC + 1))

Indexed(m) ==
    U16(Operand(m) + (IF NextInstruction(m).am = "ABX" THEN m.cpu.X ELSE m.cpu.Y))

\* C11: an instruction addressed absolute,X or absolute,Y costs its table
\* cycles plus one when operand + index lies in another page than the operand,
\* and exactly its table cycles otherwise (the fetching Clock() call counts
\* as the first cycle).
C11_IndexedPageCross ==
    [][ClockStep /\ cpu.cycles = 0 /\ NextInstruction(M).am \in {"ABX", "ABY"} =>
         cpu'.cycles + 1 =
             NextInstruction(M).cycles
               + (IF Indexed(M) \div 256 # Operand(M) \div 256 THEN 1 ELSE 0)]_vars

----------------------------------------------------------------------------
(* Properties of single instructions. *)

\* The address of the instruction after the two-byte one at the program
\* counter, and that address plus the sign-extended byte that follows the
\* opcode, modulo 65536.
Following(m) == U16(m.cpu.PC + 2)

OffsetByte(m) == read(m, U16(m.cpu.PC + 1))

BranchTarget(m) ==
    U16(Following(m) + (IF OffsetByte(m) >= 128 THEN 65536 + OffsetByte(m) - 256
                        ELSE OffsetByte(m)))

IsBranch(m) ==
    NextInstruction(m).op \in {"BCC", "BCS", "BEQ", "BMI", "BNE", "BPL", "BVC", "BVS"}

\* C12: a conditional branch costs 2 cycles and falls through when not
\* taken; taken, it goes to the following instruction's address plus the
\* sign-extended offset (mod 65536) and costs 3 cycles when that target is in
\* the page of the following instruction, 4 when it is in another page.
C12_BranchCost ==
    [][ClockStep /\ cpu.cycles = 0 /\ IsBranch(M) =>
         IF BranchTaken(M)
         THEN /\ cpu'.PC = BranchTarget(M)
              /\ cpu'.cycles + 1 =
                    (IF BranchTarget(M) \div 256 = Following(M) \div 256 THEN 3 ELSE 4)
         ELSE /\ cpu'.PC = Following(M)
              /\ cpu'.cycles + 1 = 2]_vars

\* BCC +$7F taken at 0xFFF1: the target wraps past 0xFFFF to 0x0072, four
\* cycles in all.
C12_Witness ==
    last = "Clock" /\ cpu.opcode = \h90 /\ cpu.PC = \h0072 /\ cpu.cycles = 3

\* The sum ADC #operand forms from the accumulator, the operand byte and the
\* carry flag; the sign bit of a byte; a truth value as the bit GetFlag gives.
AdcSum(m) == m.cpu.A + OffsetByte(m) + GetFlag(m, FlagCarry)

SignBit(v) == (v % 256) \div 128

Bit(b) == IF b THEN 1 ELSE 0

\* C13: ADC with accumulator A, operand M and carry-in C leaves
\* A = (A+M+C) mod 256, Carry iff A+M+C > 255, Zero iff the 8-bit result is
\* 0, Negative = bit 7 of the result, Overflow iff A and M have the same sign
\* bit and the result's sign bit differs from it.
C13_AdcFlags ==
    [][ClockStep /\ cpu.cycles = 0 /\ read(M, cpu.PC) = \h69 =>
         /\ cpu'.A = AdcSum(M) % 256
         /\ GetFlag([cpu |-> cpu'], FlagCarry) = Bit(AdcSum(M) > 255)
         /\ GetFlag([cpu |-> cpu'], FlagZero) = Bit(AdcSum(M) % 256 = 0)
         /\ GetFlag([cpu |-> cpu'], FlagNegative) = SignBit(AdcSum(M))
         /\ GetFlag([cpu |-> cpu'], FlagOverflow) =
                Bit(/\ SignBit(cpu.A) = SignBit(OffsetByte(M))
                    /\ SignBit(AdcSum(M)) # SignBit(cpu.A))]_vars

\* 0x50 + 0x50 with carry clear: A = 0xA0, Carry 0, Overflow 1, Negative 1.
C13_Witness ==
    /\ last = "Clock" /\ cpu.opcode = \h69 /\ cpu.PC = \h8005
    /\ Mem(bus, \h8001) = \h50 /\ Mem(bus, \h8002) = \h18 /\ Mem(bus, \h8004) = \h50
    /\ cpu.A = \hA0 /\ cpu.FLAG = \hE0

\* The target the indirect mode is to form from the pointer that follows the
\* opcode: low byte from the pointer, high byte from the start of the
\* pointer's page when the pointer's low byte is 0xFF, from pointer + 1
\* otherwise.
IndirectTarget(m) ==
    256 * (IF Operand(m) % 256 = \hFF
           THEN read(m, (Operand(m) \div 256) * 256)
           ELSE read(m, U16(Operand(m) + 1)))
      + read(m, Operand(m))

\* C14: the indirect mode with pointer p takes the low byte of the target
\* from p and the high byte from the start of p's page when the low byte of
\* p is 0xFF (for p = 0x30FF from 0x3000, not 0x3100), from p + 1 otherwise.
C14_IndirectWraps ==
    [][ClockStep /\ cpu.cycles = 0 /\ NextInstruction(M).am = "IND" =>
         cpu'.addrAbs = IndirectTarget(M) /\ cpu'.PC = IndirectTarget(M)]_vars

\* JMP ($30FF) has gone to 0x1234: high byte from 0x3000, not from 0x3100.
C14_Witness ==
    /\ last = "Clock" /\ cpu.opcode = \h6C /\ cpu.PC = \h1234
    /\ Mem(bus, \h8001) = \hFF /\ Mem(bus, \h8002) = \h30
    /\ Mem(bus, \h30FF) = \h34 /\ Mem(bus, \h3000) = \h12 /\ Mem(bus, \h3100) = \h56

\* The six flags an instruction is said to leave alone.
ArithmeticFlags ==
    {FlagNegative, FlagOverflow, FlagDecimal, FlagInterrupt, FlagZero, FlagCarry}

\* C26: an opcode the table names "???" changes none of A, X, Y, SP, no
\* memory cell and none of the flags N, V, D, I, Z, C; it moves PC past the
\* one byte of the instruction and costs the cycle count the table declares.
C26_UndocumentedNoOp ==
    [][ClockStep /\ cpu.cycles = 0 /\ NextInstruction(M).name = "???" =>
         /\ cpu'.A = cpu.A /\ cpu'.X = cpu.X /\ cpu'.Y = cpu.Y /\ cpu'.SP = cpu.SP
         /\ bus' = bus
         /\ \A f \in ArithmeticFlags : BitAnd(cpu'.FLAG, f) = BitAnd(cpu.FLAG, f)
         /\ cpu'.PC = U16(cpu.PC + 1)
         /\ cpu'.cycles + 1 = NextInstruction(M).cycles]_vars

\* The operand byte of the instruction at the program counter.
ZeroPageOperand(m) == read(m, U16(m.cpu.PC + 1))

\* C29: zero-page,X and zero-page,Y address (operand + index) mod 256; the
\* indexed-indirect mode reads its pointer at (operand + X) mod 256 and
\* (operand + X + 1) mod 256, the indirect-indexed mode at operand and
\* (operand + 1) mod 256, and adds Y to the pointer; a load through any of
\* them brings the byte at that address.
C29_ZeroPageWraps ==
    [][ClockStep /\ cpu.cycles = 0 =>
         /\ NextInstruction(M).am = "ZPX" =>
                cpu'.addrAbs = (ZeroPageOperand(M) + cpu.X) % 256
         /\ NextInstruction(M).am = "ZPY" =>
                cpu'.addrAbs = (ZeroPageOperand(M) + cpu.Y) % 256
         /\ NextInstruction(M).am = "IZX" =>
                cpu'.addrAbs = Mem(bus, (ZeroPageOperand(M) + cpu.X + 1) % 256) * 256
                                 + Mem(bus, (ZeroPageOperand(M) + cpu.X) % 256)
         /\ NextInstruction(M).am = "IZY" =>
                cpu'.addrAbs = (Mem(bus, (ZeroPageOperand(M) + 1) % 256) * 256
                                  + Mem(bus, ZeroPageOperand(M)) + cpu.Y) % 65536
         /\ NextInstruction(M).am \in {"ZPX", "IZX", "IZY"}
                /\ NextInstruction(M).op = "LDA" =>
                cpu'.A = Mem(bus, cpu'.addrAbs)
         /\ NextInstruction(M).am = "ZPY" /\ NextInstruction(M).op = "LDX" =>
                cpu'.X = Mem(bus, cpu'.addrAbs)]_vars

\* LDA ($FF,X) with X = 0: low byte 0x34 from 0x00FF, high byte 0x12 from
\* 0x0000 (0x0100 holds 0x56).
C29_Witness ==
    /\ last = "Clock" /\ cpu.opcode = \hA1 /\ cpu.X = 0
    /\ Mem(bus, \h8005) = \hFF
    /\ Mem(bus, \h00FF) = \h34 /\ Mem(bus, \h0000) = \h12 /\ Mem(bus, \h0100) = \h56
    /\ cpu.addrAbs = \h1234

\* The byte a shift or rotate makes of v with carry c.
Shifted(op, v, c) ==
    CASE op = "ASL" -> (2 * v) % 256
      [] op = "LSR" -> v \div 2
      [] op = "ROL" -> ((2 * v) % 256) + c
      [] op = "ROR" -> (v \div 2) + (128 * c)

\* The four opcodes that shift or rotate the accumulator: ASL A, ROL A,
\* LSR A, ROR A.
AccumulatorOpcodes == { \h0A, \h2A, \h4A, \h6A }

\* C30: ASL, LSR, ROL and ROR on the accumulator (opcodes 0x0A, 0x2A, 0x4A,
\* 0x6A) make their result of A, put it in A and write no memory; in a memory
\* mode they make it of the addressed byte, put it there, change no other
\* cell and leave A as it was.
C30_ShiftDestination ==
    [][ClockStep /\ cpu.cycles = 0 /\ NextInstruction(M).op \in {"ASL", "LSR", "ROL", "ROR"} =>
         IF read(M, cpu.PC) \in AccumulatorOpcodes
         THEN /\ cpu'.A = Shifted(NextInstruction(M).op, cpu.A, GetFlag(M, FlagCarry))
              /\ bus' = bus
         ELSE /\ cpu'.A = cpu.A
              /\ Mem(bus', cpu'.addrAbs) =
                     Shifted(NextInstruction(M).op, Mem(bus, cpu'.addrAbs),
                             GetFlag(M, FlagCarry))
              /\ \A cell \in (DOMAIN bus.mem \cup DOMAIN bus'.mem) \ {cpu'.addrAbs} :
                     Mem(bus', cell) = Mem(bus, cell)]_vars

\* LDA #$41; ASL A; ASL $40 with 0x01 at 0x0040: A holds 0x82, the result of
\* the accumulator shift, which the memory shift left alone, and the cell
\* went from 0x01 to 0x02.
C30_Witness ==
    /\ last = "Clock" /\ cpu.opcode = \h06 /\ cpu.addrAbs = \h0040
    /\ Mem(bus, \h8002) = \h0A /\ cpu.PC = \h8005
    /\ cpu.A = \h82
    /\ Mem(bus, \h0040) = \h02

\* C33: absolute,Y addressing yields (the 16-bit operand + Y) mod 65536 as
\* the effective address, whatever address an earlier instruction left
\* behind, and moves PC past the opcode and the two operand bytes.
C33_AbsoluteY ==
    [][ClockStep /\ cpu.cycles = 0 /\ NextInstruction(M).am = "ABY" =>
         /\ cpu'.addrAbs = U16(Operand(M) + cpu.Y)
         /\ cpu'.PC = U16(cpu.PC + 3)]_vars

\* The byte ROL works on: A in implied mode, the addressed byte otherwise.
RolOperand(m, addrAbs) ==
    IF NextInstruction(m).am = "IMP" THEN m.cpu.A ELSE Mem(m.bus, addrAbs)

RolResult(m, addrAbs) == ((2 * RolOperand(m, addrAbs)) + GetFlag(m, FlagCarry)) % 256

\* C34: ROL of the operand M with carry-in C makes ((2*M) + C) mod 256, sets
\* Carry to bit 7 of M, Zero iff the result is 0 and Negative to bit 7 of
\* the result.
C34_RolFlags ==
    [][ClockStep /\ cpu.cycles = 0 /\ NextInstruction(M).op = "ROL" =>
         /\ (IF NextInstruction(M).am = "IMP" THEN cpu'.A ELSE Mem(bus', cpu'.addrAbs))
               = RolResult(M, cpu'.addrAbs)
         /\ (BitAnd(cpu'.FLAG, FlagCarry) # 0) <=> (RolOperand(M, cpu'.addrAbs) >= 128)
         /\ (BitAnd(cpu'.FLAG, FlagZero) # 0) <=> (RolResult(M, cpu'.addrAbs) = 0)
         /\ (BitAnd(cpu'.FLAG, FlagNegative) # 0) <=> (RolResult(M, cpu'.addrAbs) >= 128)]_vars

\* C39: BRK fetched from address a pushes a + 3, high byte first, then the
\* status byte with Break, Unused and InterruptDisable set; it leaves the
\* live status with InterruptDisable set and Break clear, loads PC from the
\* word at 0xFFFE/0xFFFF and costs 7 cycles.
C39_Brk ==
    [][ClockStep /\ cpu.cycles = 0 /\ NextInstruction(M).op = "BRK" =>
         /\ Mem(bus', \h0100 + cpu.SP) = U16(cpu.PC + 3) \div 256
         /\ Mem(bus', \h0100 + U8(cpu.SP + 255)) = U16(cpu.PC + 3) % 256
         /\ Mem(bus', \h0100 + U8(cpu.SP + 254)) =
                BitOr(cpu.FLAG, FlagBreak + FlagUnused + FlagInterrupt)
         /\ cpu'.SP = U8(cpu.SP + 253)
         /\ BitAnd(cpu'.FLAG, FlagInterrupt) # 0
         /\ BitAnd(cpu'.FLAG, FlagBreak) = 0
         /\ cpu'.PC = Mem(bus, \hFFFF) * 256 + Mem(bus, \hFFFE)
         /\ cpu'.cycles + 1 = 7]_vars

\* BRK at 0x80FE has run: 0x8101 and the status 0x34 are on the stack, PC is
\* at the vector's 0x9020 and six cycles remain.
C39_Witness ==
    /\ last = "Clock" /\ cpu.opcode = \h00 /\ cpu.PC = \h9020 /\ cpu.cycles = 6
    /\ Mem(bus, \h01FD) = \h81 /\ Mem(bus, \h01FC) = \h01 /\ Mem(bus, \h01FB) = \h34
    /\ cpu.SP = \hFA

----------------------------------------------------------------------------
(* Properties of the bus and the cartridge as memory devices.  The step of *)
(* a port call is recognised by the access it records.                     *)

CpuReadStep == calls' = calls + 1 /\ access'.port = "CpuRead"

CpuWriteStep == calls' = calls + 1 /\ access'.port = "CpuWrite"

PpuWriteStep == calls' = calls + 1 /\ access'.port = "PpuWrite"

\* The destination of a processor access by fixed priority: the cartridge
\* when its mapper claims the address, else work RAM below 0x2000, else the
\* peripheral block in 0x2000..0x3FFF, else nothing.
Destination(claimed, addr) ==
    IF claimed THEN "cart"
    ELSE IF addr < \h2000 THEN "ram"
    ELSE IF addr >= \h2000 /\ addr <= \h3FFF THEN "ppu"
    ELSE "none"

\* C15: a processor read or write is handed to exactly the destination the
\* priority names; a read of nothing returns 0 and a write to nothing
\* changes no state; an access the cartridge claims reads its byte from
\* program storage and leaves work RAM as it was, and an access that goes to
\* work RAM or the peripheral leaves the cartridge as it was.
C15_BusRouting ==
    [][/\ CpuReadStep =>
            /\ access'.via =
                   Destination(Mapper000CpuMapRead(bus.cart, access'.addr).flag, access'.addr)
            /\ access'.via = "none" => access'.data = 0
            /\ access'.via = "ram" =>
                   access'.data = Peek(bus.ram, access'.addr % 2048, RamFill)
            /\ access'.via = "cart" /\ ~access'.panic =>
                   access'.data =
                       Peek(bus.cart.memPRG,
                            Mapper000CpuMapRead(bus.cart, access'.addr).mappedAddr, PrgFill)
            /\ bus' = bus
       /\ CpuWriteStep =>
            /\ access'.via =
                   Destination(Mapper000CpuMapWrite(bus.cart, access'.addr).flag, access'.addr)
            /\ access'.via \in {"none", "ppu"} => bus' = bus
            /\ access'.via = "cart" => bus'.ram = bus.ram
            /\ access'.via = "ram" => bus'.cart = bus.cart]_vars

\* A write the cartridge claimed, made after work RAM was written: program
\* storage took the byte, cell 0 of work RAM kept its own.
C15_Witness ==
    /\ access.port = "CpuWrite" /\ access.addr = \h8000 /\ access.via = "cart"
    /\ access.data = \h00
    /\ Peek(bus.cart.memPRG, 0, PrgFill) = \h00
    /\ Peek(bus.ram, 0, RamFill) = \h5A

\* C36: on a bus with no cartridge inserted, a processor read or write of an
\* address below 0x2000 completes without a run-time panic and is served by
\* work RAM: a read returns the byte of the cell at address mod 0x0800, a
\* write stores its byte there.
C36_EmptySlot ==
    [][((CpuReadStep \/ CpuWriteStep) /\ bus.cart = Nil /\ access'.addr < \h2000) =>
         /\ ~access'.panic
         /\ access'.via = "ram"
         /\ CpuReadStep =>
                access'.data = Peek(bus.ram, access'.addr % 2048, RamFill) /\ bus' = bus
         /\ CpuWriteStep =>
                Peek(bus'.ram, access'.addr % 2048, RamFill) = access'.data]_vars

\* C16: a write of v to an address a below 0x2000 that the mapper does not
\* claim makes every address below 0x2000 congruent to a modulo 0x0800 read
\* back v and leaves every other cell of work RAM as it was.
C16_RamMirrors ==
    [][/\ CpuWriteStep
       /\ access'.addr < \h2000
       /\ ~Mapper000CpuMapWrite(bus.cart, access'.addr).flag
       =>
       /\ \A k \in 0..3 :
              BusCpuRead(bus', (access'.addr % 2048) + k * 2048) = access'.data
       /\ \A a \in {p \in CpuProbes : p < \h2000} :
              a % 2048 # access'.addr % 2048 => BusCpuRead(bus', a) = BusCpuRead(bus, a)
       /\ \A cell \in (DOMAIN bus.ram \cup DOMAIN bus'.ram) \ {access'.addr % 2048} :
              Peek(bus'.ram, cell, RamFill) = Peek(bus.ram, cell, RamFill)]_vars

\* 0x5A written at 0x1800 reads back at 0x0000, 0x0800 and 0x1000, and cell
\* 0x07FF written before keeps its byte.
C16_Witness ==
    /\ access.port = "CpuWrite" /\ access.addr = \h1800 /\ access.data = \h5A
    /\ BusCpuRead(bus, \h0000) = \h5A /\ BusCpuRead(bus, \h0800) = \h5A
    /\ BusCpuRead(bus, \h1000) = \h5A /\ BusCpuRead(bus, \h1FFF) = \h5A
    /\ BusCpuRead(bus, \h0001) = \h00

\* The address of the peripheral register the block's mirroring selects.
Register(addr) == \h2000 + (addr % 8)

\* C17: a read or write at an address in 0x2000..0x3FFF that the mapper does
\* not claim is handed to the peripheral, and the peripheral is called with
\* the register the address selects modulo 8: with what the same access at
\* 0x2000 + (address mod 8) calls it with, so that 0x2000, 0x2008 and 0x3FF8
\* reach one register.
C17_PeripheralMirrors ==
    [][/\ CpuReadStep /\ access'.addr >= \h2000 /\ access'.addr <= \h3FFF
          /\ ~Mapper000CpuMapRead(bus.cart, access'.addr).flag
          => /\ access'.via = "ppu"
             /\ BusCpuReadCall(bus, Register(access'.addr)).via = "ppu"
             /\ BusCpuReadCall(bus, access'.addr).ppuAddr
                  = BusCpuReadCall(bus, Register(access'.addr)).ppuAddr
             /\ access'.data = BusCpuReadCall(bus, Register(access'.addr)).data
       /\ CpuWriteStep /\ access'.addr >= \h2000 /\ access'.addr <= \h3FFF
          /\ ~Mapper000CpuMapWrite(bus.cart, access'.addr).flag
          => /\ access'.via = "ppu"
             /\ BusCpuWriteCall(bus, Register(access'.addr), access'.data).via = "ppu"
             /\ BusCpuWriteCall(bus, access'.addr, access'.data).ppuAddr
                  = BusCpuWriteCall(bus, Register(access'.addr), access'.data).ppuAddr
             /\ bus' = BusCpuWriteCall(bus, Register(access'.addr), access'.data).b]_vars

\* C18: for the cartridge Load built from the header, whenever the reference
\* mapper claims a processor-side or graphics-side read or write, the offset
\* it returns is below the length of the storage the cartridge indexes.
C18_MappedInBounds ==
    \A a \in CpuProbes \cup PpuProbes :
        /\ Mapper000CpuMapRead(bus.cart, a).flag =>
               Mapper000CpuMapRead(bus.cart, a).mappedAddr < PRGROMSize(bus.cart.numPRGBanks)
        /\ Mapper000CpuMapWrite(bus.cart, a).flag =>
               Mapper000CpuMapWrite(bus.cart, a).mappedAddr < PRGROMSize(bus.cart.numPRGBanks)
        /\ Mapper000PpuMapRead(bus.cart, a).flag =>
               Mapper000PpuMapRead(bus.cart, a).mappedAddr < CHRROMSize(bus.cart.numCHRBanks)
        /\ Mapper000PpuMapWrite(bus.cart, a).flag =>
               Mapper000PpuMapWrite(bus.cart, a).mappedAddr < CHRROMSize(bus.cart.numCHRBanks)

\* C19: with one program bank a processor read at 0x8000+k or 0xC000+k
\* returns the storage byte at offset k; with two banks the read at 0x8000+k
\* returns the byte at offset k and the read at 0xC000+k the byte at offset
\* 0x4000+k.
C19_PrgWindow ==
    [][CpuReadStep /\ access'.addr >= \h8000 =>
         /\ bus.cart.numPRGBanks = 1 =>
                access'.data = Peek(bus.cart.memPRG, (access'.addr - \h8000) % \h4000, PrgFill)
         /\ bus.cart.numPRGBanks = 2 =>
                access'.data = Peek(bus.cart.memPRG, access'.addr - \h8000, PrgFill)]_vars

\* One bank: the read at 0xC000 returned the image's byte at offset 0.
C19_Witness ==
    /\ access.port = "CpuRead" /\ access.addr = \hC000 /\ access.data = \h11
    /\ bus.cart.numPRGBanks = 1 /\ ~access.panic

\* C20: with graphics-bank count 0 a graphics-side write of v at an address
\* below 0x2000 is accepted, and a graphics-side read of that address then
\* returns v.
C20_ChrRam ==
    [][PpuWriteStep /\ bus.cart.numCHRBanks = 0 /\ access'.addr < \h2000 =>
         /\ access'.flag /\ ~access'.panic
         /\ CartridgePpuRead(bus'.cart, access'.addr).flag
         /\ ~CartridgePpuRead(bus'.cart, access'.addr).panic
         /\ CartridgePpuRead(bus'.cart, access'.addr).data = access'.data]_vars

----------------------------------------------------------------------------
(* Properties of the flat bus. *)

\* C32: on the flat 64 KiB bus a read with the read-only flag returns the
\* byte last written at its address, whatever was written at other
\* addresses since (0xFF where nothing was written), at every address up to
\* and including 0xFFFF, and changes no memory cell; after a write every
\* address written so far holds the byte it was last given.
C32_FlatReadsBack ==
    [][/\ CpuReadStep =>
            /\ access'.data = (IF access'.addr \in DOMAIN written
                               THEN written[access'.addr] ELSE PlainFill)
            /\ bus' = bus
       /\ CpuWriteStep =>
            \A a \in DOMAIN written' : Mem(bus', a) = written'[a]]_vars

\* 0xDE written at 0xFFFF and a byte at 0x0000: the read of 0xFFFF returns
\* 0xDE, and 0x0000 holds its own byte.
C32_Witness ==
    /\ access.port = "CpuRead" /\ access.addr = \hFFFF /\ access.data = \hDE
    /\ calls = 3
    /\ DOMAIN written = {\h0000, \hFFFF}
    /\ written[\h0000] = \h00 /\ Mem(bus, \h0000) = \h00

----------------------------------------------------------------------------
(* Properties of the listing. *)

\* C31: Disassemble(start, end) with start <= end, end = 0xFFFF included,
\* leaves every register, flag, the cycle counter and every memory cell as
\* they were, comes to its end, and returns instruction addresses strictly
\* increasing from start on, each with exactly one line.
C31_DisassembleReadsOnly ==
    [][(last' = "Disassemble" /\ listing'.start <= listing'.end) =>
         LET holds(d) ==
                 /\ d.ended
                 /\ Len(d.Index) >= 1
                 /\ d.Index[1] = d.start
                 /\ \A i \in 1..(Len(d.Index) - 1) : d.Index[i] < d.Index[i + 1]
                 /\ DOMAIN d.Lines = {d.Index[i] : i \in 1..Len(d.Index)}
         IN  /\ cpu' = cpu /\ bus' = bus
             /\ listing'.bus = bus
             /\ holds(Listed(listing'))]_vars

\* The listing of 0xFFF0..0xFFFF: the instruction in the last cell takes its
\* operand from cells 0 and 1, and the loop is left behind it.
C31_Witness ==
    /\ last = "Disassemble"
    /\ listing.start = \hFFF0 /\ listing.end = \hFFFF
    /\ Listed(listing).ended
    /\ Len(Listed(listing).Index) = 15
    /\ Listed(listing).Index[15] = \hFFFF
    /\ cpu.clockCount = MaxListingClocks
    /\ Mem(bus, \hFFFF) = \hAD

\* The digits of n, d of them, most significant first.
Hexadecimal(n, d) ==
    IF d = 2
    THEN HexDigits[((n \div 16) % 16) + 1] \o HexDigits[(n % 16) + 1]
    ELSE HexDigits[((n \div 4096) % 16) + 1] \o HexDigits[((n \div 256) % 16) + 1]
           \o HexDigits[((n \div 16) % 16) + 1] \o HexDigits[(n % 16) + 1]

\* C35: the line of the instruction at address a is '$', the four upper-case
\* hexadecimal digits of a, ": ", the mnemonic and the operand, each operand
\* byte rendered as its two and each operand word as its four hexadecimal
\* digits.
C35_ListingHex ==
    LET expected(a, entry, lo, hi, after) ==
            LineText(Hexadecimal(a, 4), entry.name,
                     OperandText(entry.am, Hexadecimal(lo, 2),
                                 Hexadecimal(hi * 256 + lo, 4),
                                 Hexadecimal(after + lo, 4)))
        at(a, entry) ==
            expected(a, entry, read(M, U16(a + 1)), read(M, U16(a + 2)),
                     a + 1 + OperandLen(entry.am))
        right(d) ==
            \A a \in DOMAIN d.Lines : d.Lines[a] = at(a, Lookup[read(M, a) + 1])
    IN  last = "Disassemble" => right(Listed(listing))

----------------------------------------------------------------------------
(* Properties of the loader.  What an image declares is read here from its *)
(* bytes: byte 4 and byte 5 are the bank counts, bit 2 of byte 6 announces *)
(* the trainer.                                                            *)

\* The image starts with 'N', 'E', 'S', 0x1A.
HasMagic(img) ==
    img.size >= 4 /\ SubSeq(img.head, 1, 4) = <<78, 69, 83, 26>>

\* The image is shorter than its header, or than the header and what the
\* header declares to follow it.
TooShort(img) ==
    IF img.size < 16 THEN TRUE ELSE img.size < Needed(img.head)

\* C21: Load is all-or-nothing.  For an image without the magic signature or
\* shorter than header, declared trainer, declared program data and declared
\* graphics data together, Load returns no cartridge and a non-nil error; it
\* returns a cartridge only with a nil error, and then program and graphics
\* storage are exactly (byte 4) x 16384 and (byte 5) x 8192 bytes long.
C21_LoadAllOrNothing ==
    rom.call = "Load" =>
        /\ ~HasMagic(rom.image) \/ TooShort(rom.image) =>
               rom.cart = Nil /\ rom.err # "nil"
        /\ rom.cart = Nil => rom.err # "nil"
        /\ rom.cart # Nil =>
               /\ rom.err = "nil"
               /\ rom.cart.lenPRG = rom.image.head[5] * 16384
               /\ rom.cart.lenCHR = rom.image.head[6] * 8192

\* Load has refused an image of one program bank and one graphics bank that
\* lacks the last byte of its graphics data.
C21_Witness ==
    /\ rom.call = "Load"
    /\ HasMagic(rom.image)
    /\ rom.image.head[5] = 1 /\ rom.image.head[6] = 1 /\ rom.image.head[7] = 0
    /\ rom.image.size = 16 + 16384 + 8191
    /\ rom.cart = Nil
    /\ rom.err = "invalid CHR data"

\* C22: given the magic signature, NewHeader fails exactly when one of the
\* five reserved bytes at offsets 11 to 15 is not zero; the flag byte at
\* offset 10 has no say in it.
C22_ReservedBytesDecide ==
    rom.call = "NewHeader" /\ rom.image.size >= 16 /\ HasMagic(rom.image) =>
        (rom.header = Nil <=> \E i \in 11..15 : rom.image.head[i + 1] # 0)

\* C23: Load of an image whose mapper number has no implementation (any
\* number but 0) returns an error and no cartridge.
C23_UnsupportedMapper ==
    rom.call = "Load" /\ rom.image.size >= 16
        /\ (rom.image.head[7] \div 16) + 16 * (rom.image.head[8] \div 16) # 0 =>
        rom.cart = Nil /\ rom.err # "nil"

\* C24: for a header NewHeader returns, PRGROMSize() is 16384 x byte 4,
\* CHRROMSize() is 8192 x byte 5, and Mapper() has the high nibble of byte 6
\* as its low nibble and the high nibble of byte 7 as its high nibble.
C24_HeaderQueries ==
    rom.call = "NewHeader" /\ rom.header # Nil =>
        /\ PRGROMSize(rom.header.PRG) = 16384 * rom.image.head[5]
        /\ CHRROMSize(rom.header.CHR) = 8192 * rom.image.head[6]
        /\ Mapper(rom.header) =
               (rom.image.head[7] \div 16) + 16 * (rom.image.head[8] \div 16)

\* A header with two program banks, one graphics bank and flag bytes 0xA5
\* and 0xF0 was parsed: 32768, 8192 and mapper 0xFA.
C24_Witness ==
    /\ rom.call = "NewHeader" /\ rom.header # Nil
    /\ rom.image.head[5] = 2 /\ rom.image.head[6] = 1
    /\ rom.image.head[7] = \hA5 /\ rom.image.head[8] = \hF0
    /\ PRGROMSize(rom.header.PRG) = 32768
    /\ CHRROMSize(rom.header.CHR) = 8192
    /\ Mapper(rom.header) = \hFA

\* Where the program data of the image starts: behind the header, and
\* behind the 512 bytes of the trainer when bit 2 of byte 6 is set.
DataStart(img) == IF (img.head[7] \div 4) % 2 = 1 THEN 528 ELSE 16

\* Offsets storage is compared at.
PrgOffsets == {0, 1, 511, 512, 16383, 16384, 32767}

ChrOffsets == {0, 1, 8191}

\* C25: the program storage of a loaded cartridge holds the image bytes from
\* offset 528 on when the trainer flag is set and from offset 16 on when it
\* is clear (and the graphics storage those that follow the program data).
C25_TrainerDiscarded ==
    rom.call = "Load" /\ rom.cart # Nil =>
        /\ \A o \in PrgOffsets : o < rom.cart.lenPRG =>
               Peek(rom.cart.memPRG, o, PrgFill)
                   = Peek(rom.image.bytes, DataStart(rom.image) + o, PrgFill)
        /\ \A o \in ChrOffsets : o < rom.cart.lenCHR =>
               Peek(rom.cart.memCHR, o, ChrFill)
                   = Peek(rom.image.bytes,
                          DataStart(rom.image) + rom.cart.lenPRG + o, ChrFill)

\* An image with a trainer was loaded: the first byte of program storage is
\* the image's byte at offset 528 (27), not the one at offset 16 (17).
C25_Witness ==
    /\ rom.call = "Load" /\ rom.cart # Nil
    /\ rom.image.head[7] = \h04
    /\ rom.cart.lenPRG = 16384
    /\ Peek(rom.image.bytes, 16, PrgFill) = 17
    /\ Peek(rom.image.bytes, 528, PrgFill) = 27
    /\ Peek(rom.cart.memPRG, 0, PrgFill) = 27

----------------------------------------------------------------------------
(* Properties of the single step and of the processor without a bus. *)

\* The most Clock() calls one single step may take: the eight cycles that
\* Reset() and NMI() leave on the counter, which no instruction exceeds.
LongestStep == 8

\* C28: Complete() is true exactly when the remaining-cycle counter is 0; the
\* step loop "Clock(); while not Complete(): Clock()" is over after at most
\* LongestStep Clock() calls from every state reached after Reset(); and a
\* step started with the counter at 0 has executed exactly one instruction
\* when its loop is left.
C28_StepLoopCompletes ==
    /\ Complete(M) <=> cpu.cycles = 0
    /\ driver.clocks <= LongestStep
    /\ (last = "Step" /\ driver.startCycles = 0) => driver.executed = 1
    /\ (last = "Step" /\ driver.startCycles # 0) => driver.clocks = driver.startCycles

\* A step started with the counter at 0 has run an instruction of several
\* cycles to its end and the loop is left.
C28_Witness ==
    /\ last = "Step"
    /\ ~driver.running
    /\ driver.startCycles = 0
    /\ driver.executed = 1
    /\ driver.clocks > 2
    /\ cpu.cycles = 0

\* C27: a Clock() call on a processor with no bus attached ends in a
\* run-time panic whatever the remaining-cycle counter holds, and leaves PC,
\* the registers, the flags and the cycle counter as they were.
C27_ClockWithoutBusFatal ==
    [][(last' = "Clock" /\ bus = Nil) => (driver'.fatal /\ cpu' = cpu)]_vars

----------------------------------------------------------------------------
(* Properties of the console. *)

\* C2: n Bus.Clock() calls after a Bus.Reset() have clocked the PPU n times
\* and the processor ceil(n/3) times (on calls 1, 4, 7, ...).
C2_ClockDivider ==
    /\ ppuClocks = ticks
    /\ cpuClocks = (ticks + 2) \div 3

\* Seven bus ticks after a second Bus.Reset(): the processor was clocked on
\* ticks 1, 4 and 7.
C2_Witness ==
    last = "Bus.Clock" /\ calls = 1 /\ ticks = 7 /\ cpuClocks = 3

====
